---- MODULE Spec2Model ----
(***************************************************************************)
(* Parallel ingestion pipeline and hybrid search of ParalegalAI:           *)
(* ConcurrencyLimiter, ApiKeyRotator, ParallelGeminiEmbedder,              *)
(* ParallelQdrant, ParallelDocumentProcessor and HybridSearchManager,      *)
(* modelled as state machines.  JavaScript runs                            *)
(* every synchronous stretch of code to completion, so one action is one   *)
(* stretch of code between two awaits (with the microtasks it triggers).   *)
(***************************************************************************)
EXTENDS Integers, Sequences, FiniteSets, TLC

VARIABLES
    \* ConcurrencyLimiter (part_006:13-33, part_005:562-582)
    limiter,    \* the instance: limit, running, queue (waiting run() calls)
    unit,       \* where each run() call stands
    \* ApiKeyRotator (part_002:7-164)
    rotator,    \* the singleton: apiKeys, currentIndex, keyStats, failedKeys
    now,        \* Date.now()
    op,         \* the rotator method called last
    returned,   \* what that call returned
    calls,      \* number of rotator calls made so far
    streak,     \* getNextKey calls made in a row with every key healthy
    \* ParallelGeminiEmbedder (part_005:584-807) and
    \* ParallelQdrant.addDocumentToNamespace (ParallelQdrantProvider.js:25-149)
    textChunks,   \* the chunks textSplitter.splitText returned
    maxBatchSize, \* embedder.maxBatchSize
    task,         \* the embedBatch call of every sub-batch
    ledger,       \* per key, what the rotator calls made so far add up to
    phase,        \* where addDocumentToNamespace stands
    vectorValues, \* what embedChunks returned
    submission,   \* the vector records prepared for the upsert
    upserted,     \* the vector records written to Qdrant
    \* ParallelDocumentProcessor (part_006:35-299)
    documentPaths, \* the argument of processDocuments
    batchSize,     \* this.batchSize
    retryAttempts, \* this.retryAttempts
    doc,           \* the limiter.run(processSingleDocument) call of every path
    batchIndex,    \* the batch processDocuments is at (counted from 1)
    results,       \* embedded, failedToEmbed, errors
    stats,         \* this.stats: total, processed, failed
    rows,          \* docpaths of the rows of workspace_documents
    creates,       \* the create calls of the fallback of bulkInsertDocuments
    procPc,        \* where processDocuments stands
    \* HybridSearchManager (part_005:10-550)
    query,         \* the search() call: its arguments, its paths, its result
    candidates,    \* the argument of deduplicateResults
    deduped,       \* what deduplicateResults returned, call after call
    validated,     \* what validateResults returned, call after call
    bm25,          \* a performBM25Search call: the index scores, what it returned
    \* ParallelQdrant.addDocumentToNamespace, its stores
    \* (ParallelQdrantProvider.js:25-194)
    store,         \* the Qdrant collection, the document_vectors rows, the cache
    adding,        \* the addDocumentToNamespace call made for a document
    \* the two limiters of processDocuments (part_006:87-131, part_005:585-630)
    tiers,         \* the documents of a batch and their sub-batch calls
    \* batchUpload50k.js
    upload         \* the progress file, the run of batchUpload and what it uploaded

limiterVars == <<limiter, unit>>
callVars == <<op, returned, calls, streak>>
rotatorVars == <<rotator, now, op, returned, calls, streak>>
embedVars == <<textChunks, maxBatchSize, task, ledger, phase, vectorValues,
               submission, upserted>>

docVars == <<documentPaths, batchSize, retryAttempts, doc, batchIndex, results,
             stats, rows, creates, procPc>>

searchVars == <<query, candidates, deduped, validated, bm25>>

storeVars == <<store, adding>>

vars == <<limiter, unit, rotator, now, op, returned, calls, streak,
          textChunks, maxBatchSize, task, ledger, phase, vectorValues,
          submission, upserted,
          documentPaths, batchSize, retryAttempts, doc, batchIndex, results,
          stats, rows, creates, procPc, query, candidates, deduped, validated, bm25,
          store, adding, tiers, upload>>

(***************************************************************************)
(* Bounds                                                                  *)
(***************************************************************************)
MaxLimit == 2
MaxCallers == 3
MaxKeys == 3
MaxCalls == 6
MaxChunks == 3
MaxBatch == 2
MaxDocs == 3
MaxDocBatch == 2
MaxAttempts == 2
MaxThrottleCalls == 8
MaxResults == 3
MaxTopN == 2
MaxIndexDocs == 3
MaxPdfs == 3
MaxRuns == 2

Callers == 1..MaxCallers

(***************************************************************************)
(* Components that a specification leaves out stay in these states         *)
(***************************************************************************)
LimiterOff ==
    /\ limiter = <<>>
    /\ unit = <<>>

RotatorOff ==
    /\ rotator = <<>>
    /\ now = 0
    /\ op = "none"
    /\ returned = 0
    /\ calls = 0
    /\ streak = <<>>

EmbedOff ==
    /\ textChunks = <<>>
    /\ maxBatchSize = 0
    /\ task = <<>>
    /\ ledger = <<>>
    /\ phase = "none"
    /\ vectorValues = <<>>
    /\ submission = <<>>
    /\ upserted = <<>>

ProcessorOff ==
    /\ documentPaths = <<>>
    /\ batchSize = 0
    /\ retryAttempts = 0
    /\ doc = <<>>
    /\ batchIndex = 0
    /\ results = <<>>
    /\ stats = <<>>
    /\ rows = {}
    /\ creates = <<>>
    /\ procPc = "none"

SearchOff ==
    /\ query = [pc |-> "off"]
    /\ candidates = <<>>
    /\ deduped = <<>>
    /\ validated = <<>>
    /\ bm25 = [pc |-> "off"]

StoreOff ==
    /\ store = <<>>
    /\ adding = <<>>

TiersOff == tiers = <<>>

UploadOff == upload = <<>>

(***************************************************************************)
(* ConcurrencyLimiter                                                      *)
(***************************************************************************)
\* constructor(limit)
NewLimiter(n) == [limit |-> n, running |-> 0, queue |-> <<>>]

\* while (this.running >= this.limit): the caller has to wait
MustWait(l) == l.running >= l.limit

\* await new Promise(resolve => this.queue.push(resolve))
Enqueue(l, c) == [l EXCEPT !.queue = Append(@, c)]

\* this.running++
Occupy(l) == [l EXCEPT !.running = @ + 1]

\* finally { this.running--; const resolve = this.queue.shift(); ... }
Vacate(l) ==
    [l EXCEPT !.running = @ - 1,
              !.queue = IF @ = <<>> THEN @ ELSE Tail(@)]

LimiterInit ==
    /\ \E n \in 1..MaxLimit : limiter = NewLimiter(n)
    /\ unit = [c \in Callers |-> "idle"]

\* Mutant: the condition is tested once only (an `if`): a woken caller
\* proceeds without looking at this.running again.
EnterNoRecheck(c) ==
    IF unit[c] = "idle" /\ MustWait(limiter)
    THEN /\ limiter' = Enqueue(limiter, c)
         /\ unit' = [unit EXCEPT ![c] = "waiting"]
    ELSE /\ limiter' = Occupy(limiter)
         /\ unit' = [unit EXCEPT ![c] = "executing"]

\* One pass of `while (this.running >= this.limit) await new Promise(...)`
\* followed, when the loop exits, by `this.running++` and the call of fn().
Enter(c) ==
    IF MustWait(limiter)
    THEN /\ limiter' = Enqueue(limiter, c)
         /\ unit' = [unit EXCEPT ![c] = "waiting"]
    ELSE /\ limiter' = Occupy(limiter)
         /\ unit' = [unit EXCEPT ![c] = "executing"]

\* run(fn) is called: the loop is entered for the first time
Run(c) ==
    /\ unit[c] = "idle"
    /\ Enter(c)

\* the promise a waiter awaits was resolved: its continuation runs and the
\* while condition is tested again
Resume(c) ==
    /\ unit[c] = "woken"
    /\ Enter(c)

\* fn() settles: it returns ...
UnitReturns(c) ==
    /\ unit[c] = "executing"
    /\ unit' = [unit EXCEPT ![c] = "returned"]
    /\ UNCHANGED limiter

\* ... or it throws
UnitThrows(c) ==
    /\ unit[c] = "executing"
    /\ unit' = [unit EXCEPT ![c] = "threw"]
    /\ UNCHANGED limiter

\* Mutant: no finally block: the slot is given back and the waiter resolved
\* only when fn() returned
ReleaseOnReturn(c) ==
    /\ unit[c] \in {"returned", "threw"}
    /\ limiter' = IF unit[c] = "returned" THEN Vacate(limiter) ELSE limiter
    /\ unit' = IF unit[c] = "threw"
               THEN [unit EXCEPT ![c] = "rejected"]
               ELSE IF limiter.queue # <<>>
                    THEN [unit EXCEPT ![c] = "resolved", ![Head(limiter.queue)] = "woken"]
                    ELSE [unit EXCEPT ![c] = "resolved"]

\* the finally block of run(): the slot is given back and the first waiter
\* is resolved; run() itself resolves or rejects as fn() did
Release(c) ==
    /\ unit[c] \in {"returned", "threw"}
    /\ limiter' = Vacate(limiter)
    /\ LET settled == IF unit[c] = "returned" THEN "resolved" ELSE "rejected"
       IN  unit' = IF limiter.queue # <<>>
                   THEN [unit EXCEPT ![c] = settled, ![Head(limiter.queue)] = "woken"]
                   ELSE [unit EXCEPT ![c] = settled]

LimiterNext ==
    \/ \E c \in Callers : Run(c) /\ UNCHANGED <<rotatorVars, embedVars, docVars>> /\ UNCHANGED searchVars /\ UNCHANGED <<storeVars, tiers, upload>>
    \/ \E c \in Callers : Resume(c) /\ UNCHANGED <<rotatorVars, embedVars, docVars>> /\ UNCHANGED searchVars /\ UNCHANGED <<storeVars, tiers, upload>>
    \/ \E c \in Callers : UnitReturns(c) /\ UNCHANGED <<rotatorVars, embedVars, docVars>> /\ UNCHANGED searchVars /\ UNCHANGED <<storeVars, tiers, upload>>
    \/ \E c \in Callers : UnitThrows(c) /\ UNCHANGED <<rotatorVars, embedVars, docVars>> /\ UNCHANGED searchVars /\ UNCHANGED <<storeVars, tiers, upload>>
    \/ \E c \in Callers : Release(c) /\ UNCHANGED <<rotatorVars, embedVars, docVars>> /\ UNCHANGED searchVars /\ UNCHANGED <<storeVars, tiers, upload>>

LimiterSpecInit == LimiterInit /\ RotatorOff /\ EmbedOff /\ ProcessorOff /\ SearchOff /\ StoreOff /\ TiersOff /\ UploadOff

\* the limiter on its own, with callers arriving at any time
LimiterSpec == LimiterSpecInit /\ [][LimiterNext]_vars

Executing == {c \in Callers : unit[c] = "executing"}

\* C1: with limit N, whatever the order of run() calls, completions and
\* throws, the number of units executing at the same time never exceeds N
\* (and neither does the counter this.running that guards it).
C1_AtMostLimitExecuting ==
    /\ Cardinality(Executing) <= limiter.limit
    /\ limiter.running <= limiter.limit

\* C1 witness: a unit threw, its waiter was woken, a run() call that arrived
\* meanwhile took the free slot: the limit is reached with the woken caller
\* still to test the condition again.
C1_Witness ==
    /\ Cardinality(Executing) = limiter.limit
    /\ \E c \in Callers : unit[c] = "woken"
    /\ \E c \in Callers : unit[c] = "rejected"

C15_Overtakes(c, d) ==
    /\ unit[c] \in {"waiting", "woken"}
    /\ unit[d] = "idle"
    /\ unit'[d] = "executing"

\* C15: units that had to wait are started in the order of their run()
\* calls: no step starts the unit of a run() call made only now while the
\* unit of an earlier run() call is still waiting for a slot.
C15_StartedInSubmissionOrder ==
    [][\A c, d \in Callers : ~C15_Overtakes(c, d)]_vars

\* what a run() call does once it was made, its unit terminating: the
\* continuation of a woken waiter, fn() settling, the finally block
LimiterProgress(c) ==
    /\ Resume(c) \/ UnitReturns(c) \/ UnitThrows(c) \/ Release(c)
    /\ UNCHANGED <<rotatorVars, embedVars, docVars, searchVars, storeVars, tiers, upload>>

\* the limiter with every continuation run and every unit terminating
LiveLimiterSpec ==
    LimiterSpecInit /\ [][LimiterNext]_vars /\ \A c \in Callers : WF_vars(LimiterProgress(c))

Settled == {c \in Callers : unit[c] \in {"resolved", "rejected"}}

\* C35: every run() call made is eventually settled (its unit started and
\* completed, its slot released whether the unit returned or threw), so no
\* waiter stays queued; and whenever no call is pending, running is 0 and
\* the wait queue is empty.
C35_EveryUnitCompletes ==
    /\ \A c \in Callers : (unit[c] # "idle") ~> (c \in Settled)
    /\ []((\A c \in Callers : unit[c] = "idle" \/ c \in Settled) =>
              (limiter.running = 0 /\ limiter.queue = <<>>))

\* a unit threw under limit 1: its slot is free again and the waiter it
\* left behind has been resolved
C35_Witness ==
    /\ limiter.limit = 1
    /\ limiter.running = 0
    /\ limiter.queue = <<>>
    /\ \E c, d \in Callers : unit[c] = "rejected" /\ unit[d] = "woken"
       /\ \A e \in Callers \ {c, d} : unit[e] = "idle"

(***************************************************************************)
(* ApiKeyRotator                                                           *)
(***************************************************************************)
\* lastUsed: null, rateLimitUntil: null
NULL == 0
\* markRateLimited(apiKey, durationMs = 60000)
RateLimitMs == 60000
\* if (stats.failures >= 5)
FailureThreshold == 5
\* the step of the clock between two observations of Date.now()
TickMs == RateLimitMs \div 2
\* Date.now() when the rotator is constructed
StartMs == TickMs
\* the clock is followed for the length of one cooldown
MaxTicks == RateLimitMs \div TickMs

\* constructor(apiKeys): k non-blank keys
NewRotator(k) ==
    [ nKeys |-> k,
      currentIndex |-> 0,
      keyStats |-> [i \in 0..(k - 1) |->
                      [requests |-> 0, failures |-> 0,
                       lastUsed |-> NULL, rateLimitUntil |-> NULL]],
      failedKeys |-> {} ]

KeyIndices(r) == 0..(r.nKeys - 1)

\* stats.rateLimitUntil && Date.now() < stats.rateLimitUntil
IsRateLimited(r, t, i) ==
    /\ r.keyStats[i].rateLimitUntil # NULL
    /\ t < r.keyStats[i].rateLimitUntil

\* this.failedKeys.has(keyIndex)
IsFailed(r, i) == i \in r.failedKeys

Usable(r, t, i) == ~IsRateLimited(r, t, i) /\ ~IsFailed(r, i)

\* The while loop of getNextKey, from `attempts` on.  The result is the
\* rotator afterwards and the index of the key returned.
RECURSIVE ScanKeys(_, _, _, _)
ScanKeys(r, t, startIndex, attempts) ==
    IF attempts >= r.nKeys
    THEN \* All keys exhausted: return this.apiKeys[startIndex]
         [rot |-> r, key |-> startIndex]
    ELSE LET keyIndex == r.currentIndex
             next == (r.currentIndex + 1) % r.nKeys
         IN  IF IsRateLimited(r, t, keyIndex) \/ IsFailed(r, keyIndex)
             THEN ScanKeys([r EXCEPT !.currentIndex = next], t, startIndex, attempts + 1)
             ELSE [rot |-> [r EXCEPT
                              !.keyStats[keyIndex].requests = @ + 1,
                              !.keyStats[keyIndex].lastUsed = t,
                              !.currentIndex = next],
                   key |-> keyIndex]

\* Mutant: getNextKey hands out the key at currentIndex without the health
\* checks of the loop
GetNextKeyUnchecked(r, t) ==
    IF r.nKeys = 1
    THEN [rot |-> r, key |-> 0]
    ELSE [rot |-> [r EXCEPT
                     !.keyStats[r.currentIndex].requests = @ + 1,
                     !.keyStats[r.currentIndex].lastUsed = t,
                     !.currentIndex = (r.currentIndex + 1) % r.nKeys],
          key |-> r.currentIndex]

\* Mutant: a key that was handed out stays the current one (currentIndex is
\* not moved on after a good key was found)
GetNextKeySticky(r, t) ==
    IF r.nKeys = 1
    THEN [rot |-> r, key |-> 0]
    ELSE LET res == ScanKeys(r, t, r.currentIndex, 0)
         IN  [rot |-> [res.rot EXCEPT !.currentIndex = res.key], key |-> res.key]

\* getNextKey()
GetNextKey(r, t) ==
    IF r.nKeys = 1
    THEN [rot |-> r, key |-> 0]
    ELSE ScanKeys(r, t, r.currentIndex, 0)

\* markRateLimited(apiKey, durationMs); i is apiKeys.indexOf(apiKey)
MarkRateLimited(r, t, i, durationMs) ==
    IF i = -1 THEN r
    ELSE [r EXCEPT !.keyStats[i].rateLimitUntil = t + durationMs]

\* Mutant: the counter is written from a stale value (what it was when the
\* key was handed out, 0) instead of being incremented in place
MarkFailedStale(r, i) ==
    IF i = -1 THEN r
    ELSE [r EXCEPT !.keyStats[i].failures = 1]

\* markFailed(apiKey)
MarkFailed(r, i) ==
    IF i = -1 THEN r
    ELSE LET failures == r.keyStats[i].failures + 1
         IN  [r EXCEPT !.keyStats[i].failures = failures,
                       !.failedKeys = IF failures >= FailureThreshold
                                      THEN @ \cup {i} ELSE @]

\* Mutant: the counter is reset but the key stays in failedKeys
MarkSuccessKeepsDisabled(r, i) ==
    IF i = -1 THEN r
    ELSE [r EXCEPT !.keyStats[i].failures = 0]

\* markSuccess(apiKey)
MarkSuccess(r, i) ==
    IF i = -1 THEN r
    ELSE [r EXCEPT !.keyStats[i].failures = 0,
                   !.failedKeys = @ \ {i}]

\* What a void method returns
Undefined == -1

NoStreak(r) == [m |-> 0, sel |-> [i \in KeyIndices(r) |-> 0]]

RotatorInit ==
    /\ \E k \in 1..MaxKeys : rotator = NewRotator(k)
    /\ now = StartMs
    /\ op = "constructor"
    /\ returned = Undefined
    /\ calls = 0
    /\ streak = NoStreak(rotator)

\* a caller asks for a key
CallGetNextKey ==
    /\ calls < MaxCalls
    /\ LET res == GetNextKey(rotator, now)
       IN  /\ rotator' = res.rot
           /\ returned' = res.key
           /\ streak' = IF \A i \in KeyIndices(rotator) : Usable(rotator, now, i)
                        THEN [m |-> streak.m + 1,
                              sel |-> [streak.sel EXCEPT ![res.key] = @ + 1]]
                        ELSE NoStreak(rotator)
    /\ op' = "getNextKey"
    /\ calls' = calls + 1
    /\ UNCHANGED now

\* a caller reports a throttled key (an unknown key is index -1)
CallMarkRateLimited(i) ==
    /\ calls < MaxCalls
    /\ rotator' = MarkRateLimited(rotator, now, i, RateLimitMs)
    /\ op' = "markRateLimited"
    /\ returned' = Undefined
    /\ calls' = calls + 1
    /\ streak' = NoStreak(rotator)
    /\ UNCHANGED now

\* a caller reports a failed call
CallMarkFailed(i) ==
    /\ calls < MaxCalls
    /\ rotator' = MarkFailed(rotator, i)
    /\ op' = "markFailed"
    /\ returned' = Undefined
    /\ calls' = calls + 1
    /\ streak' = NoStreak(rotator)
    /\ UNCHANGED now

\* a caller reports a successful call
CallMarkSuccess(i) ==
    /\ calls < MaxCalls
    /\ rotator' = MarkSuccess(rotator, i)
    /\ op' = "markSuccess"
    /\ returned' = Undefined
    /\ calls' = calls + 1
    /\ UNCHANGED <<now, streak>>

\* Date.now() moves on
Tick == now' = now + TickMs

\* time passes between two calls
TimePasses ==
    /\ now < StartMs + MaxTicks * TickMs
    /\ Tick
    /\ op' = "tick"
    /\ returned' = Undefined
    /\ UNCHANGED <<rotator, calls, streak>>

RotatorNext ==
    \/ CallGetNextKey /\ UNCHANGED <<limiterVars, embedVars, docVars>> /\ UNCHANGED searchVars /\ UNCHANGED <<storeVars, tiers, upload>>
    \/ \E i \in -1..(rotator.nKeys - 1) : CallMarkRateLimited(i) /\ UNCHANGED <<limiterVars, embedVars, docVars>> /\ UNCHANGED searchVars /\ UNCHANGED <<storeVars, tiers, upload>>
    \/ \E i \in -1..(rotator.nKeys - 1) : CallMarkFailed(i) /\ UNCHANGED <<limiterVars, embedVars, docVars>> /\ UNCHANGED searchVars /\ UNCHANGED <<storeVars, tiers, upload>>
    \/ \E i \in -1..(rotator.nKeys - 1) : CallMarkSuccess(i) /\ UNCHANGED <<limiterVars, embedVars, docVars>> /\ UNCHANGED searchVars /\ UNCHANGED <<storeVars, tiers, upload>>
    \/ TimePasses /\ UNCHANGED <<limiterVars, embedVars, docVars>> /\ UNCHANGED searchVars /\ UNCHANGED <<storeVars, tiers, upload>>

RotatorSpecInit == RotatorInit /\ LimiterOff /\ EmbedOff /\ ProcessorOff /\ SearchOff /\ StoreOff /\ TiersOff /\ UploadOff

\* the rotator driven by arbitrary callers
RotatorSpec == RotatorSpecInit /\ [][RotatorNext]_vars

\* C2 vocabulary: a credential is cooling down while now < rateLimitUntil,
\* disabled while it is in the failed set
C2_CoolingDown(i) ==
    /\ rotator.keyStats[i].rateLimitUntil # NULL
    /\ now < rotator.keyStats[i].rateLimitUntil

C2_Unusable(i) == C2_CoolingDown(i) \/ i \in rotator.failedKeys

\* C2: with two or more keys, the key getNextKey has just returned is
\* cooling down or disabled only if every key is cooling down or disabled.
\* (getNextKey changes neither the clock, nor a cooldown, nor the failed
\* set, so the state right after the call decides it.)
C2_UnusableOnlyWhenAllUnusable ==
    (op = "getNextKey" /\ rotator.nKeys >= 2 /\ C2_Unusable(returned))
        => \A i \in KeyIndices(rotator) : C2_Unusable(i)

\* C2 witness: of three keys, key 0 was disabled before it was ever handed
\* out; getNextKey, starting at index 0, skipped it and returned key 1
C2_Witness ==
    /\ op = "getNextKey"
    /\ rotator.nKeys = 3
    /\ rotator.failedKeys = {0}
    /\ rotator.currentIndex = 2
    /\ returned = 1
    /\ rotator.keyStats[0].requests = 0


\* C10: K healthy keys (none cooling down, none disabled) and M getNextKey
\* calls in a row, each followed by a successful provider call: no key is
\* returned more than ceil(M/K) times, whatever currentIndex was when the
\* run of calls began.
C10_AtMostCeilShare ==
    \A i \in KeyIndices(rotator) :
        streak.sel[i] <= (streak.m + rotator.nKeys - 1) \div rotator.nKeys

\* C10 witness: with two keys, three calls in a row, each reported
\* successful, and the run began at index 1: key 1 was returned
\* ceil(3/2) = 2 times
C10_Witness ==
    /\ rotator.nKeys = 2
    /\ op = "markSuccess"
    /\ streak.m = 3
    /\ streak.sel[1] = 2
    /\ rotator.keyStats[0].requests + rotator.keyStats[1].requests > 3

C12_Disabled ==
    \A i \in KeyIndices(rotator) :
        i \in rotator.failedKeys <=> rotator.keyStats[i].failures >= FailureThreshold

\* the keys whose failure counter or cooldown a step changes
C12_Touched ==
    {i \in KeyIndices(rotator) : rotator'.keyStats[i] # rotator.keyStats[i]}

\* what a step may do to the failure counter and the cooldown of a key
C12_KeyStep(before, after) ==
    CASE op' = "markFailed" ->
           /\ after.failures \in {before.failures, before.failures + 1}
           /\ after.rateLimitUntil = before.rateLimitUntil
      [] op' = "markSuccess" ->
           /\ after.failures \in {before.failures, 0}
           /\ after.rateLimitUntil = before.rateLimitUntil
      [] op' = "markRateLimited" ->
           /\ after.failures = before.failures
           /\ after.rateLimitUntil \in {before.rateLimitUntil, now + RateLimitMs}
      [] OTHER ->
           /\ after.failures = before.failures
           /\ after.rateLimitUntil = before.rateLimitUntil

C12_Steps ==
    rotator' # rotator =>
        /\ Cardinality(C12_Touched) <= 1
        /\ \A i \in C12_Touched : C12_KeyStep(rotator.keyStats[i], rotator'.keyStats[i])
        /\ op' \in {"getNextKey", "markRateLimited"} =>
              rotator'.failedKeys = rotator.failedKeys

\* C12: whatever calls were made, a key is in failedKeys exactly when its
\* failure counter is at least 5; a call touches one key at most; markFailed
\* adds one to the counter, markSuccess sets it to 0, markRateLimited sets
\* only rateLimitUntil = now + 60 s and leaves the counter and failedKeys
\* alone, as does getNextKey.
C12_DisabledIffFiveFailures == []C12_Disabled /\ [][C12_Steps]_vars

\* C12 witness: a key was disabled by its fifth failure while another key
\* with one failure stays enabled
C12_Witness ==
    /\ op = "markFailed"
    /\ \E i, j \in KeyIndices(rotator) :
          /\ rotator.keyStats[i].failures = FailureThreshold
          /\ i \in rotator.failedKeys
          /\ rotator.keyStats[j].failures = 1
          /\ j \notin rotator.failedKeys

\* Callers that only ask for keys and report them throttled, for longer
\* runs of calls than RotatorSpec follows
ThrottleGetNextKey ==
    /\ calls < MaxThrottleCalls
    /\ LET res == GetNextKey(rotator, now)
       IN  /\ rotator' = res.rot
           /\ returned' = res.key
    /\ op' = "getNextKey"
    /\ calls' = calls + 1
    /\ UNCHANGED <<now, streak>>

ThrottleMarkRateLimited(i) ==
    /\ calls < MaxThrottleCalls
    /\ rotator' = MarkRateLimited(rotator, now, i, RateLimitMs)
    /\ op' = "markRateLimited"
    /\ returned' = Undefined
    /\ calls' = calls + 1
    /\ UNCHANGED <<now, streak>>

ThrottleNext ==
    \/ ThrottleGetNextKey /\ UNCHANGED <<limiterVars, embedVars, docVars>> /\ UNCHANGED searchVars /\ UNCHANGED <<storeVars, tiers, upload>>
    \/ \E i \in KeyIndices(rotator) : ThrottleMarkRateLimited(i) /\ UNCHANGED <<limiterVars, embedVars, docVars>> /\ UNCHANGED searchVars /\ UNCHANGED <<storeVars, tiers, upload>>
    \/ TimePasses /\ UNCHANGED <<limiterVars, embedVars, docVars>> /\ UNCHANGED searchVars /\ UNCHANGED <<storeVars, tiers, upload>>

ThrottleSpec == RotatorSpecInit /\ [][ThrottleNext]_vars

\* C11: when every key is cooling down or disabled, the key getNextKey
\* returns is the least recently used one: no other key that has been handed
\* out was handed out longer ago.  (Keys never handed out are left out of
\* the comparison, and so is a returned key that was never handed out.)
C11_ReturnsLeastRecentlyUsed ==
    (/\ op = "getNextKey"
     /\ rotator.nKeys >= 2
     /\ \A i \in KeyIndices(rotator) : ~Usable(rotator, now, i)
     /\ rotator.keyStats[returned].lastUsed # NULL)
        => \A i \in KeyIndices(rotator) :
              rotator.keyStats[i].lastUsed # NULL =>
                  rotator.keyStats[returned].lastUsed <= rotator.keyStats[i].lastUsed

UsableKeys == {i \in KeyIndices(rotator) : Usable(rotator, now, i)}

\* a getNextKey call made right after another one
C36_SecondCall == op = "getNextKey" /\ op' = "getNextKey"

C37_DegradedCall ==
    /\ op' = "getNextKey"
    /\ rotator.nKeys >= 2
    /\ UsableKeys = {}

KeyTexts == {"", " ", "key1", "key2"}

\* process.env.GEMINI_API_KEY, set or not
EnvKeys == {"GEMINI_API_KEY", "undefined"}

\* key && key.trim().length > 0
NonBlank(key) == key \notin {"", " "}

KeyLists == UNION {[1..n -> KeyTexts] : n \in 0..MaxKeys}

\* constructor(apiKeys): the blank keys are dropped, keyStats gets an entry
\* for every key left, and only then is an empty list given the key of the
\* environment
Constructor(keys, envKey) ==
    LET apiKeys == SelectSeq(keys, NonBlank)
    IN  [ nKeys |-> IF apiKeys = <<>> THEN 1 ELSE Len(apiKeys),
          apiKeys |-> IF apiKeys = <<>> THEN <<envKey>> ELSE apiKeys,
          currentIndex |-> 0,
          keyStats |-> [i \in 0..(Len(apiKeys) - 1) |->
                          [requests |-> 0, failures |-> 0,
                           lastUsed |-> NULL, rateLimitUntil |-> NULL]],
          failedKeys |-> {} ]

\* this.apiKeys.indexOf(apiKey)
IndexOf(apiKeys, apiKey) ==
    IF \E i \in DOMAIN apiKeys : apiKeys[i] = apiKey
    THEN (CHOOSE i \in DOMAIN apiKeys :
              apiKeys[i] = apiKey /\ \A j \in 1..(i - 1) : apiKeys[j] # apiKey) - 1
    ELSE -1

KeyListInit ==
    /\ \E keys \in KeyLists : \E envKey \in EnvKeys : rotator = Constructor(keys, envKey)
    /\ now = StartMs
    /\ op = "constructor"
    /\ returned = "undefined"
    /\ calls = 0
    /\ streak = <<>>

\* getNextKey(): the key itself is returned
KeyListGetNextKey ==
    /\ calls < MaxCalls
    /\ LET res == GetNextKey(rotator, now)
       IN  /\ rotator' = res.rot
           /\ returned' = rotator.apiKeys[res.key + 1]
    /\ op' = "getNextKey"
    /\ calls' = calls + 1
    /\ UNCHANGED <<now, streak>>

\* markSuccess, markFailed or markRateLimited on the key getNextKey has just
\* returned: `const stats = this.keyStats.get(keyIndex)` is undefined for an
\* index without an entry, and the write to stats.failures or
\* stats.rateLimitUntil throws a TypeError
KeyListReport(method) ==
    /\ calls < MaxCalls
    /\ op = "getNextKey"
    /\ LET keyIndex == IndexOf(rotator.apiKeys, returned)
       IN  IF keyIndex # -1 /\ keyIndex \notin DOMAIN rotator.keyStats
           THEN /\ returned' = "TypeError"
                /\ UNCHANGED rotator
           ELSE /\ returned' = "undefined"
                /\ rotator' = CASE method = "markSuccess" -> MarkSuccess(rotator, keyIndex)
                                [] method = "markFailed" -> MarkFailed(rotator, keyIndex)
                                [] OTHER -> MarkRateLimited(rotator, now, keyIndex, RateLimitMs)
    /\ op' = method
    /\ calls' = calls + 1
    /\ UNCHANGED <<now, streak>>

KeyListNext ==
    \/ KeyListGetNextKey /\ UNCHANGED <<limiterVars, embedVars, docVars, searchVars, storeVars, tiers, upload>>
    \/ \E method \in {"markSuccess", "markFailed", "markRateLimited"} : KeyListReport(method) /\ UNCHANGED <<limiterVars, embedVars, docVars, searchVars, storeVars, tiers, upload>>

KeyListSpecInit ==
    /\ KeyListInit
    /\ LimiterOff /\ EmbedOff /\ ProcessorOff /\ SearchOff /\ StoreOff /\ TiersOff /\ UploadOff

\* a rotator constructed on any list of keys, blank ones included
KeyListSpec == KeyListSpecInit /\ [][KeyListNext]_vars

\* C38: whatever list the constructor was given, every index of apiKeys has
\* an entry in keyStats, and no markSuccess, markFailed or markRateLimited
\* call on a key that getNextKey returned throws.
C38_EveryKeyHasStats ==
    /\ \A i \in 0..(Len(rotator.apiKeys) - 1) : i \in DOMAIN rotator.keyStats
    /\ returned # "TypeError"

\* what holds of C38: a list with a non-blank key gives every key its entry
C38_StatsUnlessEmpty ==
    (\E i \in DOMAIN rotator.keyStats : TRUE) =>
        /\ \A i \in 0..(Len(rotator.apiKeys) - 1) : i \in DOMAIN rotator.keyStats
        /\ returned # "TypeError"

(***************************************************************************)
(* ParallelGeminiEmbedder and ParallelQdrant.addDocumentToNamespace        *)
(***************************************************************************)
\* this.maxRetries = 3
MaxRetries == 3
\* this.retryDelay = 1000
RetryDelayMs == 1000

\* chunkArray(array, size): slices of `size` elements from index i on
RECURSIVE ChunkArrayFrom(_, _, _)
ChunkArrayFrom(array, size, i) ==
    IF i < Len(array)
    THEN <<SubSeq(array, i + 1, IF i + size <= Len(array) THEN i + size ELSE Len(array))>>
         \o ChunkArrayFrom(array, size, i + size)
    ELSE <<>>

\* Mutant: a last slice shorter than `size` is dropped
ChunkArrayFullOnly(array, size) ==
    LET chunks == ChunkArrayFrom(array, size, 0)
    IN  IF chunks # <<>> /\ Len(chunks[Len(chunks)]) < size
        THEN SubSeq(chunks, 1, Len(chunks) - 1)
        ELSE chunks

ChunkArray(array, size) == ChunkArrayFrom(array, size, 0)

\* batchResults.flat()
RECURSIVE Flat(_)
Flat(arrays) ==
    IF arrays = <<>> THEN <<>> ELSE Head(arrays) \o Flat(Tail(arrays))

\* the sub-batches of embedChunks
Batches == ChunkArray(textChunks, maxBatchSize)

\* The embedding the provider computes for a text, and the null that
\* embedIndividually pushes for a chunk that failed
Embedding(text) == <<"embedding", text>>
NullEmbedding == <<"null">>

\* result.embeddings.map(e => e.values) of a batchEmbedContents call
RECURSIVE BatchEmbeddings(_)
BatchEmbeddings(texts) ==
    IF texts = <<>> THEN <<>>
    ELSE <<Embedding(Head(texts))>> \o BatchEmbeddings(Tail(texts))

IsEmbedding(e) == e # NullEmbedding

\* embeddings.filter(e => e !== null)
FilterNulls(embeddings) == SelectSeq(embeddings, IsEmbedding)

\* The locals of one embedBatch call (apiKey, attempt, the delay slept, the
\* position in embedIndividually and its list) while they are live, with
\* the number of keys the call has acquired and the number of outcomes it
\* has reported to the rotator; `embeddings` of a call that is done is what
\* it returned
NewTask ==
    [pc |-> "new", attempt |-> 0, apiKey |-> -1, acquired |-> 0, reported |-> 0,
     delay |-> 0, pos |-> 0, embeddings |-> <<>>]

NewLedger(r) ==
    [i \in KeyIndices(r) |-> [granted |-> 0, failures |-> 0, until |-> NULL]]

\* The shared objects a synchronous stretch of embedder code works on
Objects == [lim |-> limiter, rot |-> rotator, task |-> task, led |-> ledger]

\* const apiKey = this.keyRotator.getNextKey() in the call of sub-batch b.
\* The ledger counts the call for the key handed out when the rotator had a
\* usable key to choose among two or more.
Acquire(o, b, t) ==
    LET res == GetNextKey(o.rot, t)
        counted == o.rot.nKeys >= 2 /\ \E i \in KeyIndices(o.rot) : Usable(o.rot, t, i)
    IN  [o EXCEPT !.rot = res.rot,
                  !.task[b].apiKey = res.key,
                  !.task[b].acquired = @ + 1,
                  !.led = IF counted THEN [@ EXCEPT ![res.key].granted = @ + 1] ELSE @]

\* embedBatch(textBatch, batchIndex, attempt) up to its await of
\* model.batchEmbedContents
EmbedBatchCall(o, b, attempt, t) ==
    [Acquire(o, b, t) EXCEPT !.task[b].pc = "calling",
                             !.task[b].attempt = attempt,
                             !.task[b].delay = 0]

\* this.limiter.run(() => this.embedBatch(batch, index)) up to its first await
LimiterRun(o, b, t) ==
    IF MustWait(o.lim)
    THEN [o EXCEPT !.lim = Enqueue(@, b), !.task[b].pc = "waiting"]
    ELSE EmbedBatchCall([o EXCEPT !.lim = Occupy(@)], b, 1, t)

\* batches.map((batch, index) => this.limiter.run(...)), from sub-batch b on
RECURSIVE RunFrom(_, _, _)
RunFrom(o, b, t) ==
    IF b > Len(o.task) THEN o ELSE RunFrom(LimiterRun(o, b, t), b + 1, t)

\* embedBatch of sub-batch b returns `value`: run() gives the slot back and
\* resolves the first waiter, which tests the loop condition again and starts
\* its own embedBatch (all of it microtasks of the same turn)
Settle(o, b, value, t) ==
    LET o1 == [o EXCEPT !.task[b] = [NewTask EXCEPT !.pc = "done", !.embeddings = value],
                        !.lim = Vacate(@)]
    IN  IF o.lim.queue = <<>> THEN o1 ELSE LimiterRun(o1, Head(o.lim.queue), t)

\* embedIndividually: the head of `for (const text of textBatch)` with
\* task.pos texts done: the next text is sent under a key acquired for it,
\* or the loop is over and the list is returned without its nulls
EmbedIndividuallyNext(o, b, t) ==
    IF o.task[b].pos >= Len(Batches[b])
    THEN Settle(o, b, FilterNulls(o.task[b].embeddings), t)
    ELSE [Acquire(o, b, t) EXCEPT !.task[b].pc = "chunkCalling",
                                  !.task[b].pos = @ + 1]

\* The rotator and the ledger after the report of a call's outcome
\* (markSuccess / markRateLimited(apiKey, 60000) / markFailed)
Report(o, b, outcome, t) ==
    LET i == o.task[b].apiKey
        o1 == [o EXCEPT !.task[b].reported = @ + 1]
    IN  CASE outcome = "ok" ->
               [o1 EXCEPT !.rot = MarkSuccess(@, i), !.led[i].failures = 0]
          [] outcome = "rateLimit" ->
               [o1 EXCEPT !.rot = MarkRateLimited(@, t, i, RateLimitMs),
                          !.led[i].until = t + RateLimitMs]
          [] outcome = "error" ->
               [o1 EXCEPT !.rot = MarkFailed(@, i), !.led[i].failures = @ + 1]

\* Mutant: `attempt <= this.maxRetries`, one attempt too many
RetryOrFallBackOneMore(o, b, t) ==
    IF o.task[b].attempt <= MaxRetries
    THEN [o EXCEPT !.task[b].pc = "sleeping",
                   !.task[b].apiKey = -1,
                   !.task[b].delay = RetryDelayMs * 2 ^ (o.task[b].attempt - 1)]
    ELSE EmbedIndividuallyNext(o, b, t)

\* the catch block of embedBatch after the report: another attempt after
\* the backoff, or embedIndividually as the last resort
RetryOrFallBack(o, b, t) ==
    IF o.task[b].attempt < MaxRetries
    THEN [o EXCEPT !.task[b].pc = "sleeping",
                   !.task[b].apiKey = -1,
                   !.task[b].delay = RetryDelayMs * 2 ^ (o.task[b].attempt - 1)]
    ELSE EmbedIndividuallyNext(o, b, t)

Store(o) ==
    /\ limiter' = o.lim
    /\ rotator' = o.rot
    /\ task' = o.task
    /\ ledger' = o.led

\* The documents embedded: their chunks fill one sub-batch or two
SubBatchCounts == {1, 2}

\* The embedder's rotator holds one key (no rotation) or two
EmbedKeyCounts == {1, 2}

EmbedInit ==
    /\ \E n \in 1..MaxChunks : textChunks = [i \in 1..n |-> i]
    /\ maxBatchSize \in 1..MaxBatch
    /\ Len(Batches) \in SubBatchCounts
    /\ task = [b \in 1..Len(Batches) |-> NewTask]
    /\ \E n \in SubBatchCounts : limiter = NewLimiter(n)
    /\ unit = <<>>
    /\ \E k \in EmbedKeyCounts : rotator = NewRotator(k)
    /\ ledger = NewLedger(rotator)
    /\ now = StartMs
    /\ op = "none"
    /\ returned = Undefined
    /\ calls = 0
    /\ streak = <<>>
    /\ phase = "split"
    /\ vectorValues = <<>>
    /\ submission = <<>>
    /\ upserted = <<>>

\* embedder.embedChunks(textChunks) up to `await Promise.all(...)`
EmbedChunks ==
    /\ phase = "split"
    /\ Store(RunFrom(Objects, 1, now))
    /\ phase' = "embedding"
    /\ UNCHANGED <<unit, now, callVars, textChunks, maxBatchSize, vectorValues,
                   submission, upserted>>

\* the provider answers the batchEmbedContents call of sub-batch b
BatchResponds(b, outcome) ==
    /\ task[b].pc = "calling"
    /\ LET o == Report(Objects, b, outcome, now)
       IN  Store(IF outcome = "ok"
                 THEN Settle(o, b, BatchEmbeddings(Batches[b]), now)
                 ELSE RetryOrFallBack(o, b, now))
    /\ UNCHANGED <<unit, now, callVars, textChunks, maxBatchSize, phase,
                   vectorValues, submission, upserted>>

\* await this.sleep(delay) is over: embedBatch(textBatch, batchIndex, attempt + 1)
RetryWakes(b) ==
    /\ task[b].pc = "sleeping"
    /\ Store(EmbedBatchCall(Objects, b, task[b].attempt + 1, now))
    /\ UNCHANGED <<unit, now, callVars, textChunks, maxBatchSize, phase,
                   vectorValues, submission, upserted>>

\* the provider answers the embedContent call of embedIndividually with an
\* embedding: it is pushed, the key is marked successful, sleep(100) begins
ChunkEmbedded(b) ==
    /\ task[b].pc = "chunkCalling"
    /\ LET o == Report(Objects, b, "ok", now)
       IN  Store([o EXCEPT !.task[b].pc = "chunkSleeping",
                           !.task[b].apiKey = -1,
                           !.task[b].embeddings =
                               Append(@, Embedding(Batches[b][task[b].pos]))])
    /\ UNCHANGED <<unit, now, callVars, textChunks, maxBatchSize, phase,
                   vectorValues, submission, upserted>>

\* the embedContent call fails: null is pushed and the loop goes on
ChunkFails(b) ==
    /\ task[b].pc = "chunkCalling"
    /\ Store(EmbedIndividuallyNext(
                [Objects EXCEPT !.task[b].embeddings = Append(@, NullEmbedding)],
                b, now))
    /\ UNCHANGED <<unit, now, callVars, textChunks, maxBatchSize, phase,
                   vectorValues, submission, upserted>>

\* await this.sleep(100) is over: the loop goes on
ChunkSleepEnds(b) ==
    /\ task[b].pc = "chunkSleeping"
    /\ Store(EmbedIndividuallyNext(Objects, b, now))
    /\ UNCHANGED <<unit, now, callVars, textChunks, maxBatchSize, phase,
                   vectorValues, submission, upserted>>

\* One vector record of the loop `for (const [i, vector] of
\* vectorValues.entries())`: payload: { ...metadata, text: textChunks[i] }
VectorRecord(values, chunks, i) == [vector |-> values[i], text |-> chunks[i]]

\* Promise.all resolves: embedChunks returns batchResults.flat() and
\* addDocumentToNamespace prepares the submission, or throws "Could not
\* embed document chunks!" and returns { vectorized: false }
EmbedChunksReturns ==
    /\ phase = "embedding"
    /\ \A b \in DOMAIN task : task[b].pc = "done"
    /\ LET values == Flat([b \in DOMAIN task |-> task[b].embeddings])
       IN  /\ vectorValues' = values
           /\ IF values = <<>>
              THEN /\ phase' = "notVectorized"
                   /\ submission' = <<>>
              ELSE /\ phase' = "prepared"
                   /\ submission' = [i \in 1..Len(values) |->
                                        VectorRecord(values, textChunks, i)]
    /\ UNCHANGED <<limiterVars, rotatorVars, textChunks, maxBatchSize, task,
                   ledger, upserted>>

\* client.upsert(namespace, { wait: true, batch: submission }) completes
Upsert ==
    /\ phase = "prepared"
    /\ upserted' = submission
    /\ phase' = "vectorized"
    /\ UNCHANGED <<limiterVars, rotatorVars, textChunks, maxBatchSize, task,
                   ledger, vectorValues, submission>>

\* connect, getOrCreateCollection or upsert fails: { vectorized: false }
UpsertFails ==
    /\ phase = "prepared"
    /\ phase' = "notVectorized"
    /\ UNCHANGED <<limiterVars, rotatorVars, textChunks, maxBatchSize, task,
                   ledger, vectorValues, submission, upserted>>

\* the upsert completed, but storeVectorResult or DocumentVectors.bulkInsert
\* threw after it: { vectorized: false }
RecordingFails ==
    /\ phase = "prepared"
    /\ upserted' = submission
    /\ phase' = "notVectorized"
    /\ UNCHANGED <<limiterVars, rotatorVars, textChunks, maxBatchSize, task,
                   ledger, vectorValues, submission>>

\* Date.now() while a document is embedded: the calls and sleeps of
\* embedBatch are short against the cooldown, so the clock is read as one of
\* two instants, the start and a cooldown period later
EmbedClock ==
    /\ phase = "embedding"
    /\ now = StartMs
    /\ now' = now + RateLimitMs
    /\ UNCHANGED <<limiterVars, rotator, callVars, embedVars>>

EmbedNext ==
    \/ EmbedChunks /\ UNCHANGED docVars /\ UNCHANGED searchVars /\ UNCHANGED <<storeVars, tiers, upload>>
    \/ \E b \in DOMAIN task : BatchResponds(b, "ok") /\ UNCHANGED docVars /\ UNCHANGED searchVars /\ UNCHANGED <<storeVars, tiers, upload>>
    \/ \E b \in DOMAIN task : BatchResponds(b, "rateLimit") /\ UNCHANGED docVars /\ UNCHANGED searchVars /\ UNCHANGED <<storeVars, tiers, upload>>
    \/ \E b \in DOMAIN task : BatchResponds(b, "error") /\ UNCHANGED docVars /\ UNCHANGED searchVars /\ UNCHANGED <<storeVars, tiers, upload>>
    \/ \E b \in DOMAIN task : RetryWakes(b) /\ UNCHANGED docVars /\ UNCHANGED searchVars /\ UNCHANGED <<storeVars, tiers, upload>>
    \/ \E b \in DOMAIN task : ChunkEmbedded(b) /\ UNCHANGED docVars /\ UNCHANGED searchVars /\ UNCHANGED <<storeVars, tiers, upload>>
    \/ \E b \in DOMAIN task : ChunkFails(b) /\ UNCHANGED docVars /\ UNCHANGED searchVars /\ UNCHANGED <<storeVars, tiers, upload>>
    \/ \E b \in DOMAIN task : ChunkSleepEnds(b) /\ UNCHANGED docVars /\ UNCHANGED searchVars /\ UNCHANGED <<storeVars, tiers, upload>>
    \/ EmbedChunksReturns /\ UNCHANGED docVars /\ UNCHANGED searchVars /\ UNCHANGED <<storeVars, tiers, upload>>
    \/ Upsert /\ UNCHANGED docVars /\ UNCHANGED searchVars /\ UNCHANGED <<storeVars, tiers, upload>>
    \/ UpsertFails /\ UNCHANGED docVars /\ UNCHANGED searchVars /\ UNCHANGED <<storeVars, tiers, upload>>
    \/ RecordingFails /\ UNCHANGED docVars /\ UNCHANGED searchVars /\ UNCHANGED <<storeVars, tiers, upload>>
    \/ EmbedClock /\ UNCHANGED docVars /\ UNCHANGED searchVars /\ UNCHANGED <<storeVars, tiers, upload>>

EmbedSpecInit == EmbedInit /\ ProcessorOff /\ SearchOff /\ StoreOff /\ TiersOff /\ UploadOff

\* one document through addDocumentToNamespace, its sub-batches embedded
\* concurrently under the rotator
EmbedSpec == EmbedSpecInit /\ [][EmbedNext]_vars

\* await this.sleep(100) in embedIndividually
ChunkPauseMs == 100

\* The timer of `await this.sleep(delay)` fires, `delay` after it was set:
\* embedBatch(textBatch, batchIndex, attempt + 1)
BackoffEnds(b) ==
    /\ task[b].pc = "sleeping"
    /\ now' = now + task[b].delay
    /\ Store(EmbedBatchCall(Objects, b, task[b].attempt + 1, now'))
    /\ UNCHANGED <<unit, callVars, textChunks, maxBatchSize, phase,
                   vectorValues, submission, upserted>>

\* The timer of `await this.sleep(100)` fires: the loop goes on
ChunkPauseEnds(b) ==
    /\ task[b].pc = "chunkSleeping"
    /\ now' = now + ChunkPauseMs
    /\ Store(EmbedIndividuallyNext(Objects, b, now'))
    /\ UNCHANGED <<unit, callVars, textChunks, maxBatchSize, phase,
                   vectorValues, submission, upserted>>

\* the provider takes as long as a cooldown to answer
ProviderIsSlow ==
    /\ phase = "embedding"
    /\ now < StartMs + RateLimitMs
    /\ now' = now + RateLimitMs
    /\ UNCHANGED <<limiterVars, rotator, callVars, embedVars>>

BackoffNext ==
    \/ EmbedChunks /\ UNCHANGED docVars /\ UNCHANGED searchVars /\ UNCHANGED <<storeVars, tiers, upload>>
    \/ \E b \in DOMAIN task : BatchResponds(b, "ok") /\ UNCHANGED docVars /\ UNCHANGED searchVars /\ UNCHANGED <<storeVars, tiers, upload>>
    \/ \E b \in DOMAIN task : BatchResponds(b, "rateLimit") /\ UNCHANGED docVars /\ UNCHANGED searchVars /\ UNCHANGED <<storeVars, tiers, upload>>
    \/ \E b \in DOMAIN task : BatchResponds(b, "error") /\ UNCHANGED docVars /\ UNCHANGED searchVars /\ UNCHANGED <<storeVars, tiers, upload>>
    \/ \E b \in DOMAIN task : BackoffEnds(b) /\ UNCHANGED docVars /\ UNCHANGED searchVars /\ UNCHANGED <<storeVars, tiers, upload>>
    \/ \E b \in DOMAIN task : ChunkEmbedded(b) /\ UNCHANGED docVars /\ UNCHANGED searchVars /\ UNCHANGED <<storeVars, tiers, upload>>
    \/ \E b \in DOMAIN task : ChunkFails(b) /\ UNCHANGED docVars /\ UNCHANGED searchVars /\ UNCHANGED <<storeVars, tiers, upload>>
    \/ \E b \in DOMAIN task : ChunkPauseEnds(b) /\ UNCHANGED docVars /\ UNCHANGED searchVars /\ UNCHANGED <<storeVars, tiers, upload>>
    \/ EmbedChunksReturns /\ UNCHANGED docVars /\ UNCHANGED searchVars /\ UNCHANGED <<storeVars, tiers, upload>>
    \/ ProviderIsSlow /\ UNCHANGED docVars /\ UNCHANGED searchVars /\ UNCHANGED <<storeVars, tiers, upload>>

BackoffSpecInit == EmbedSpecInit /\ Len(task) = 1

\* one sub-batch through embedChunks, the clock following its sleeps
BackoffSpec == BackoffSpecInit /\ [][BackoffNext]_vars

\* C13: with a single key, after the provider answered the first call of a
\* sub-batch with a rate-limit signal, the sub-batch is sent again under the
\* same key, and not before the cooldown of the key is over.
C13_RetryAfterCooldown ==
    \A b \in DOMAIN task :
        (/\ rotator.nKeys = 1
         /\ task[b].pc = "calling"
         /\ task[b].attempt = 2
         /\ rotator.keyStats[0].rateLimitUntil # NULL)
            => /\ task[b].apiKey = 0
               /\ now >= rotator.keyStats[0].rateLimitUntil

\* C4: every vector record upserted carries as payload.text the chunk text
\* that was sent to the provider to produce its vector, also for documents
\* of which some chunks failed to embed.
C4_PayloadTextIsEmbeddedText ==
    \A i \in DOMAIN upserted : upserted[i].vector = Embedding(upserted[i].text)

\* C5: embedChunks(chunks) returns a list as long as chunks, entry i being
\* the vector of chunk i or null.
C5_SameLengthSameOrder ==
    phase \in {"prepared", "vectorized", "notVectorized"} =>
        /\ Len(vectorValues) = Len(textChunks)
        /\ \A i \in DOMAIN vectorValues :
              vectorValues[i] \in {Embedding(textChunks[i]), NullEmbedding}

Started(b) == task[b].pc \in {"calling", "sleeping", "chunkCalling", "chunkSleeping"}

\* a step of the embedBatch call of sub-batch b
TaskStep(b) ==
    \/ BatchResponds(b, "ok")
    \/ BatchResponds(b, "rateLimit")
    \/ BatchResponds(b, "error")
    \/ RetryWakes(b)
    \/ ChunkEmbedded(b)
    \/ ChunkFails(b)
    \/ ChunkSleepEnds(b)

\* how far the embedBatch call of sub-batch b has got: keys acquired, then
\* whether it sleeps; a call that returned is past every other
Progress(k) ==
    IF k.pc = "done" THEN 2 * (MaxRetries + MaxChunks) + 2
    ELSE 2 * k.acquired + (IF k.pc \in {"sleeping", "chunkSleeping"} THEN 1 ELSE 0)

C6_Retries ==
    \A b \in DOMAIN task :
        LET k == task[b]
        IN  /\ k.attempt <= MaxRetries
            /\ k.pc \in {"calling", "sleeping"} => k.pos = 0
            /\ k.pc = "sleeping" =>
                  /\ k.attempt < MaxRetries
                  /\ k.delay = RetryDelayMs * 2 ^ (k.attempt - 1)
            /\ k.pc \in {"chunkCalling", "chunkSleeping"} =>
                  /\ k.attempt = MaxRetries
                  /\ k.pos \in 1..Len(Batches[b])
            /\ Started(b) => k.acquired = k.attempt + k.pos
            /\ Started(b) => ENABLED TaskStep(b)

C6_Steps ==
    \A b \in DOMAIN task :
        /\ task[b].pc = "done" => task'[b] = task[b]
        /\ (Started(b) /\ task'[b] # task[b]) => Progress(task'[b]) > Progress(task[b])

\* C6: a sub-batch is sent at most maxRetries times as a whole, each time
\* under a key acquired for that attempt, sleeping retryDelay * 2^(a-1)
\* after failed attempt a < maxRetries; embedIndividually (one key and one
\* call per chunk) runs only after attempt maxRetries failed; a call that
\* has not returned can always take a step, every step brings it closer to
\* its return, and nothing happens for the sub-batch after the return.
C6_BoundedRetriesThenFallback == []C6_Retries /\ [][C6_Steps]_vars

\* C6 witness: after three failed attempts the second chunk of a sub-batch
\* is being embedded on its own, under the fifth key acquired
C6_Witness ==
    \E b \in DOMAIN task :
        /\ task[b].pc = "chunkCalling"
        /\ task[b].attempt = MaxRetries
        /\ task[b].pos = 2
        /\ task[b].acquired = MaxRetries + 2

\* C14: every provider call that has been answered (each send of a
\* sub-batch, each embedContent call of the fallback) was followed by one
\* report to the rotator for the key acquired for it: the reports of a call
\* of embedBatch are as many as the keys it acquired, less the one of the
\* provider call still in flight.
C14_EveryCallReported ==
    \A b \in DOMAIN task :
        Started(b) =>
            task[b].reported = task[b].acquired -
                (IF task[b].pc \in {"calling", "chunkCalling"} THEN 1 ELSE 0)

\* C9: under every interleaving of the sub-batch tasks the rotator's
\* counters are what the calls made add up to, none lost: requests is the
\* number of times the key was handed out by the round-robin, failures the
\* failures reported since the last success, rateLimitUntil the end of the
\* cooldown reported last, and the disabled keys are those with at least 5
\* failures.
C9_NoLostUpdate ==
    /\ \A i \in KeyIndices(rotator) :
          /\ rotator.keyStats[i].requests = ledger[i].granted
          /\ rotator.keyStats[i].failures = ledger[i].failures
          /\ rotator.keyStats[i].rateLimitUntil = ledger[i].until
    /\ rotator.failedKeys =
          {i \in KeyIndices(rotator) : ledger[i].failures >= FailureThreshold}

\* C9 witness: two sub-batch calls are in flight under the same key, each
\* after a failure of its own, with both reported failures counted on a key
\* and a cooldown set
C9_Witness ==
    /\ rotator.nKeys >= 2
    /\ Len(task) = 2
    /\ task[1].pc = "calling" /\ task[2].pc = "calling"
    /\ task[1].attempt >= 2 /\ task[2].attempt >= 2
    /\ task[1].apiKey = task[2].apiKey
    /\ \E i \in KeyIndices(rotator) : rotator.keyStats[i].failures >= 2
    /\ \E i \in KeyIndices(rotator) : rotator.keyStats[i].rateLimitUntil # NULL

(***************************************************************************)
(* ParallelDocumentProcessor                                               *)
(***************************************************************************)
(* Documents are known by their paths, which are distinct: path d is the   *)
(* number d.  fileData and VectorDb.addDocumentToNamespace are the          *)
(* surroundings: each call of them ends in one of its three outcomes.      *)
(***************************************************************************)
\* this.retryDelay = options.retryDelay || 1000
DocRetryDelayMs == 1000

\* const batches = this.chunkArray(documentPaths, this.batchSize)
DocBatches == ChunkArray(documentPaths, batchSize)

\* the file names a result carries: the path itself, path.split("/")[1],
\* and metadata?.title || path.split("/")[1]
Path(d) == <<"path", d>>
Name(d) == <<"name", d>>
TitleOrName(d) == <<"title", d>>

NoResult == [settled |-> "pending", success |-> FALSE, filename |-> <<>>, error |-> "none"]

\* the value processSingleDocument returns for a vectorized document
Success(d) ==
    [settled |-> "fulfilled", success |-> TRUE, filename |-> Name(d), error |-> "none"]

\* { success: false, filename, error }
Failure(filename, error) ==
    [settled |-> "fulfilled", success |-> FALSE, filename |-> filename, error |-> error]

\* a promise of limiter.run that rejected
Rejection(error) ==
    [settled |-> "rejected", success |-> FALSE, filename |-> <<>>, error |-> error]

NewDoc == [pc |-> "new", attempt |-> 0, delay |-> 0, result |-> NoResult]

Process == [lim |-> limiter, doc |-> doc]

\* processSingleDocument(workspace, path, VectorDb, attempt) up to
\* `await fileData(path)`
ProcessSingleDocument(o, d, attempt) ==
    [o EXCEPT !.doc[d] = [NewDoc EXCEPT !.pc = "loading", !.attempt = attempt]]

\* this.limiter.run(() => this.processSingleDocument(workspace, path, VectorDb))
\* up to its first await
DocRun(o, d) ==
    IF MustWait(o.lim)
    THEN [o EXCEPT !.lim = Enqueue(@, d), !.doc[d].pc = "waiting"]
    ELSE ProcessSingleDocument([o EXCEPT !.lim = Occupy(@)], d, 1)

\* batch.map(path => this.limiter.run(...)), from element i of the batch on
RECURSIVE RunBatch(_, _, _)
RunBatch(o, batch, i) ==
    IF i > Len(batch) THEN o ELSE RunBatch(DocRun(o, batch[i]), batch, i + 1)

\* processSingleDocument of path d settles with `result`: run() gives the
\* slot back and resolves the first waiter, which tests the loop condition
\* again and starts its own processSingleDocument
DocSettle(o, d, result) ==
    LET o1 == [o EXCEPT !.doc[d].pc = "settled",
                        !.doc[d].delay = 0,
                        !.doc[d].result = result,
                        !.lim = Vacate(@)]
    IN  IF o.lim.queue = <<>> THEN o1 ELSE DocRun(o1, Head(o.lim.queue))

\* Mutant: the failure is thrown instead of returned
ThrowFailure(o, d, filename, error) == DocSettle(o, d, Rejection(error))

\* return { success: false, filename, error }
ReturnFailure(o, d, filename, error) == DocSettle(o, d, Failure(filename, error))

\* Mutant: `attempt <= this.retryAttempts`
ShouldRetryOnceMore(attempt) == attempt <= retryAttempts

\* attempt < this.retryAttempts
ShouldRetry(attempt) == attempt < retryAttempts

\* Mutant: the document is given up at its first failure
RetryOrFailAtOnce(o, d, filename, error) == ReturnFailure(o, d, filename, error)

\* the two retry sites of processSingleDocument: sleep and try again, or
\* give the document up
RetryOrFail(o, d, filename, error) ==
    IF ShouldRetry(o.doc[d].attempt)
    THEN [o EXCEPT !.doc[d].pc = "sleeping",
                   !.doc[d].delay = DocRetryDelayMs * o.doc[d].attempt]
    ELSE ReturnFailure(o, d, filename, error)

StoreProcess(o) ==
    /\ limiter' = o.lim
    /\ doc' = o.doc

ProcessorInit ==
    /\ \E n \in 0..MaxDocs : documentPaths = [i \in 1..n |-> i]
    /\ batchSize \in 1..MaxDocBatch
    /\ retryAttempts \in 1..MaxAttempts
    /\ \E n \in 1..MaxLimit : limiter = NewLimiter(n)
    /\ doc = [d \in 1..Len(documentPaths) |-> NewDoc]
    /\ batchIndex = 0
    /\ results = [embedded |-> <<>>, failedToEmbed |-> <<>>, errors |-> {}]
    /\ stats = [total |-> 0, processed |-> 0, failed |-> 0]
    /\ rows = {}
    /\ creates = <<>>
    /\ procPc = "idle"

\* processDocuments up to the first `await Promise.all(...)`, or to its
\* return when there is no document
ProcessDocuments ==
    /\ procPc = "idle"
    /\ stats' = [total |-> Len(documentPaths), processed |-> 0, failed |-> 0]
    /\ results' = [embedded |-> <<>>, failedToEmbed |-> <<>>, errors |-> {}]
    /\ IF DocBatches = <<>>
       THEN /\ procPc' = "returned"
            /\ UNCHANGED <<limiter, doc, batchIndex>>
       ELSE /\ procPc' = "batch"
            /\ batchIndex' = 1
            /\ StoreProcess(RunBatch(Process, DocBatches[1], 1))
    /\ UNCHANGED <<documentPaths, batchSize, retryAttempts, rows, creates>>

\* `await fileData(path)` is over: it returned the document (with text, or
\* with an empty pageContent), returned null, or threw
FileDataResolves(d, outcome) ==
    /\ doc[d].pc = "loading"
    /\ StoreProcess(
         CASE outcome = "data" -> [Process EXCEPT !.doc[d].pc = "vectorizing"]
           [] outcome = "emptyData" -> [Process EXCEPT !.doc[d].pc = "vectorizingEmpty"]
           [] outcome = "null" ->
                ReturnFailure(Process, d, Path(d), "Failed to load document data")
           [] outcome = "throws" -> RetryOrFail(Process, d, Path(d), "error.message"))
    /\ UNCHANGED <<documentPaths, batchSize, retryAttempts, batchIndex, results,
                   stats, rows, creates, procPc>>

\* `await VectorDb.addDocumentToNamespace(...)` is over
VectorizeResolves(d, outcome) ==
    /\ doc[d].pc = "vectorizing"
    /\ StoreProcess(
         CASE outcome = "vectorized" -> DocSettle(Process, d, Success(d))
           [] outcome = "notVectorized" ->
                RetryOrFail(Process, d, TitleOrName(d), "Vectorization failed")
           [] outcome = "throws" -> RetryOrFail(Process, d, Path(d), "error.message"))
    /\ UNCHANGED <<documentPaths, batchSize, retryAttempts, batchIndex, results,
                   stats, rows, creates, procPc>>

\* `await VectorDb.addDocumentToNamespace(...)` is over for a document whose
\* pageContent is empty: { vectorized: false, error: "No content" }
EmptyContentReturns(d) ==
    /\ doc[d].pc = "vectorizingEmpty"
    /\ StoreProcess(RetryOrFail(Process, d, TitleOrName(d), "No content"))
    /\ UNCHANGED <<documentPaths, batchSize, retryAttempts, batchIndex, results,
                   stats, rows, creates, procPc>>

\* `await this.sleep(this.retryDelay * attempt)` is over
RetrySleepEnds(d) ==
    /\ doc[d].pc = "sleeping"
    /\ StoreProcess(ProcessSingleDocument(Process, d, doc[d].attempt + 1))
    /\ UNCHANGED <<documentPaths, batchSize, retryAttempts, batchIndex, results,
                   stats, rows, creates, procPc>>

Range(seq) == {seq[i] : i \in DOMAIN seq}

\* the paths of `batch` whose results have result.success
SuccessfulDocs(batch) == SelectSeq(batch, LAMBDA d : doc[d].result.success)
FailedDocs(batch) == SelectSeq(batch, LAMBDA d : ~doc[d].result.success)

\* the end of an iteration of the batch loop: the pause before the next
\* batch, or the return of the results
NextBatchOrReturn == IF batchIndex < Len(DocBatches) THEN "pausing" ELSE "returned"

\* `await Promise.all(...)` of the batch is over: every run() fulfilled and
\* batchResults.forEach sorts the results, or one rejected and the catch
\* block of the batch records batchError.message
BatchSettles ==
    /\ procPc = "batch"
    /\ LET batch == DocBatches[batchIndex]
           rejected == {d \in Range(batch) : doc[d].result.settled = "rejected"}
           failed == FailedDocs(batch)
       IN  IF rejected # {}
           THEN /\ \E d \in rejected :
                     results' = [results EXCEPT !.errors = @ \cup {doc[d].result.error}]
                /\ procPc' = NextBatchOrReturn
                /\ UNCHANGED stats
           ELSE /\ \A d \in Range(batch) : doc[d].result.settled = "fulfilled"
                /\ results' =
                     [embedded |-> results.embedded \o SuccessfulDocs(batch),
                      failedToEmbed |-> results.failedToEmbed \o
                          [i \in 1..Len(failed) |-> doc[failed[i]].result.filename],
                      errors |-> results.errors \cup
                          {doc[d].result.error : d \in Range(failed)}]
                /\ stats' = [stats EXCEPT !.processed = @ + Len(SuccessfulDocs(batch)),
                                          !.failed = @ + Len(failed)]
                /\ procPc' = IF SuccessfulDocs(batch) # <<>> THEN "inserting"
                             ELSE NextBatchOrReturn
    /\ UNCHANGED <<limiter, documentPaths, batchSize, retryAttempts, doc,
                   batchIndex, rows, creates>>

\* `await this.bulkInsertDocuments(successfulDocs)` is over, every
\* createMany having written its chunk
BulkInsertSucceeds ==
    /\ procPc = "inserting"
    /\ rows' = rows \cup Range(SuccessfulDocs(DocBatches[batchIndex]))
    /\ creates' = <<>>
    /\ procPc' = NextBatchOrReturn
    /\ UNCHANGED <<limiter, documentPaths, batchSize, retryAttempts, doc,
                   batchIndex, results, stats>>

\* createMany threw (the documents of a batch fit in one chunk of
\* dbBatchSize = 50, so nothing was written): the catch block starts to
\* create the documents one by one
BulkInsertFails ==
    /\ procPc = "inserting"
    /\ creates' = <<>>
    /\ procPc' = "creating"
    /\ UNCHANGED <<limiter, documentPaths, batchSize, retryAttempts, doc,
                   batchIndex, results, stats, rows>>

\* Mutant: a create that throws ends the loop
AfterCreateAborting(documents, i, ok) ==
    IF i = Len(documents) \/ ~ok THEN NextBatchOrReturn ELSE "creating"

\* where processDocuments stands after create number i: the loop goes on
\* whether or not the create threw, and bulkInsertDocuments returns after
\* the last document
AfterCreate(documents, i, ok) ==
    IF i = Len(documents) THEN NextBatchOrReturn ELSE "creating"

\* `await prisma.workspace_documents.create(...)` of the next document is
\* over: the row is written, or individualError is logged
CreateResolves(ok) ==
    /\ procPc = "creating"
    /\ LET documents == SuccessfulDocs(DocBatches[batchIndex])
           i == Len(creates) + 1
       IN  /\ creates' = Append(creates, [doc |-> documents[i], ok |-> ok])
           /\ rows' = IF ok THEN rows \cup {documents[i]} ELSE rows
           /\ procPc' = AfterCreate(documents, i, ok)
    /\ UNCHANGED <<limiter, documentPaths, batchSize, retryAttempts, doc,
                   batchIndex, results, stats>>

\* `await this.sleep(100)` between two batches is over: the next batch is
\* started
PauseEnds ==
    /\ procPc = "pausing"
    /\ batchIndex' = batchIndex + 1
    /\ procPc' = "batch"
    /\ StoreProcess(RunBatch(Process, DocBatches[batchIndex + 1], 1))
    /\ creates' = <<>>
    /\ UNCHANGED <<documentPaths, batchSize, retryAttempts, results, stats, rows>>

othersVars == <<unit, rotatorVars, embedVars>>

ProcessorNext ==
    \/ ProcessDocuments /\ UNCHANGED othersVars /\ UNCHANGED searchVars /\ UNCHANGED <<storeVars, tiers, upload>>
    \/ \E d \in DOMAIN doc : FileDataResolves(d, "data") /\ UNCHANGED othersVars /\ UNCHANGED searchVars /\ UNCHANGED <<storeVars, tiers, upload>>
    \/ \E d \in DOMAIN doc : FileDataResolves(d, "emptyData") /\ UNCHANGED othersVars /\ UNCHANGED searchVars /\ UNCHANGED <<storeVars, tiers, upload>>
    \/ \E d \in DOMAIN doc : EmptyContentReturns(d) /\ UNCHANGED othersVars /\ UNCHANGED searchVars /\ UNCHANGED <<storeVars, tiers, upload>>
    \/ \E d \in DOMAIN doc : FileDataResolves(d, "null") /\ UNCHANGED othersVars /\ UNCHANGED searchVars /\ UNCHANGED <<storeVars, tiers, upload>>
    \/ \E d \in DOMAIN doc : FileDataResolves(d, "throws") /\ UNCHANGED othersVars /\ UNCHANGED searchVars /\ UNCHANGED <<storeVars, tiers, upload>>
    \/ \E d \in DOMAIN doc : VectorizeResolves(d, "vectorized") /\ UNCHANGED othersVars /\ UNCHANGED searchVars /\ UNCHANGED <<storeVars, tiers, upload>>
    \/ \E d \in DOMAIN doc : VectorizeResolves(d, "notVectorized") /\ UNCHANGED othersVars /\ UNCHANGED searchVars /\ UNCHANGED <<storeVars, tiers, upload>>
    \/ \E d \in DOMAIN doc : VectorizeResolves(d, "throws") /\ UNCHANGED othersVars /\ UNCHANGED searchVars /\ UNCHANGED <<storeVars, tiers, upload>>
    \/ \E d \in DOMAIN doc : RetrySleepEnds(d) /\ UNCHANGED othersVars /\ UNCHANGED searchVars /\ UNCHANGED <<storeVars, tiers, upload>>
    \/ BatchSettles /\ UNCHANGED othersVars /\ UNCHANGED searchVars /\ UNCHANGED <<storeVars, tiers, upload>>
    \/ BulkInsertSucceeds /\ UNCHANGED othersVars /\ UNCHANGED searchVars /\ UNCHANGED <<storeVars, tiers, upload>>
    \/ BulkInsertFails /\ UNCHANGED othersVars /\ UNCHANGED searchVars /\ UNCHANGED <<storeVars, tiers, upload>>
    \/ CreateResolves(TRUE) /\ UNCHANGED othersVars /\ UNCHANGED searchVars /\ UNCHANGED <<storeVars, tiers, upload>>
    \/ CreateResolves(FALSE) /\ UNCHANGED othersVars /\ UNCHANGED searchVars /\ UNCHANGED <<storeVars, tiers, upload>>
    \/ PauseEnds /\ UNCHANGED othersVars /\ UNCHANGED searchVars /\ UNCHANGED <<storeVars, tiers, upload>>

ProcessorSpecInit == ProcessorInit /\ unit = <<>> /\ RotatorOff /\ EmbedOff /\ SearchOff /\ StoreOff /\ TiersOff /\ UploadOff

\* processDocuments on a list of documents, the documents of a batch
\* processed concurrently under the limiter
ProcessorSpec == ProcessorSpecInit /\ [][ProcessorNext]_vars

Ceil(n, b) == (n + b - 1) \div b

\* the scenario of 250 documents in batches of 100
Scenario == ChunkArray([i \in 1..250 |-> i], 100)

\* the batch index of path d, and whether the results of batch k have been
\* sorted into the report
BatchOf(d) == CHOOSE k \in DOMAIN DocBatches : d \in Range(DocBatches[k])
Collected(k) ==
    \/ batchIndex > k
    \/ batchIndex = k /\ procPc \in {"inserting", "creating", "pausing", "returned"}

\* how often path d is listed in embedded, and how often a file name of d
\* is listed in failedToEmbed
ListedEmbedded(d) ==
    Cardinality({i \in DOMAIN results.embedded : results.embedded[i] = d})
ListedFailed(d) ==
    Cardinality({i \in DOMAIN results.failedToEmbed :
                    results.failedToEmbed[i] \in {Path(d), TitleOrName(d)}})

\* C3: processDocuments on N documents with batch size B goes through
\* ceil(N/B) batches, all of B documents except possibly the last (250
\* documents in batches of 100: 100, 100, 50), the batches being the list
\* in order; after every batch the report lists as many documents as the
\* batches so far hold, and on return embedded.length +
\* failedToEmbed.length = N, whatever the documents' outcomes.
C3_BatchesAndReport ==
    LET N == Len(documentPaths)
        B == batchSize
        listed == Len(results.embedded) + Len(results.failedToEmbed)
    IN  procPc # "none" =>
        /\ Len(DocBatches) = Ceil(N, B)
        /\ \A k \in DOMAIN DocBatches :
              Len(DocBatches[k]) = IF k < Len(DocBatches) THEN B ELSE N - B * (k - 1)
        /\ Flat(DocBatches) = documentPaths
        /\ [k \in DOMAIN Scenario |-> Len(Scenario[k])] = <<100, 100, 50>>
        /\ batchIndex <= Len(DocBatches)
        /\ procPc \in {"inserting", "creating", "pausing"} =>
              listed = IF B * batchIndex < N THEN B * batchIndex ELSE N
        /\ procPc = "returned" => (batchIndex = Ceil(N, B) /\ listed = N)

\* C3 witness: three documents in batches of two have been processed, with
\* successes and failures
C3_Witness ==
    /\ procPc = "returned"
    /\ Len(documentPaths) = 3
    /\ batchSize = 2
    /\ batchIndex = 2
    /\ results.embedded # <<>>
    /\ results.failedToEmbed # <<>>

\* a document given up because no retry was left
Exhausted(d) ==
    /\ doc[d].pc = "settled"
    /\ ~doc[d].result.success
    /\ doc[d].result.error \in {"Vectorization failed", "No content", "error.message"}

C7_Report ==
    \A d \in DOMAIN doc :
        /\ doc[d].attempt <= retryAttempts
        /\ Exhausted(d) =>
              /\ doc[d].attempt = retryAttempts
              /\ ListedEmbedded(d) = 0
              /\ ListedFailed(d) = IF Collected(BatchOf(d)) THEN 1 ELSE 0

C7_Steps ==
    \A d \in DOMAIN doc : doc[d].pc = "settled" => doc'[d] = doc[d]

\* C7: a document is attempted at most retryAttempts times; one that failed
\* its last attempt is listed in failedToEmbed exactly once from the moment
\* its batch is sorted into the report (and not before), is never listed in
\* embedded, and nothing is done for it after it was given up.
C7_ExhaustedListedOnce == []C7_Report /\ [][C7_Steps]_vars

\* C7 witness: processDocuments returned with a document that was not
\* vectorized in any of its two or more attempts, listed once
C7_Witness ==
    /\ procPc = "returned"
    /\ \E d \in DOMAIN doc :
          /\ Exhausted(d)
          /\ doc[d].attempt >= 2
          /\ doc[d].result.error = "Vectorization failed"
          /\ ListedFailed(d) = 1

Active(d) == doc[d].pc \in {"loading", "vectorizing", "vectorizingEmpty", "sleeping"}

\* a step of the processSingleDocument call of path d
DocStep(d) ==
    \/ FileDataResolves(d, "data")
    \/ FileDataResolves(d, "emptyData")
    \/ EmptyContentReturns(d)
    \/ FileDataResolves(d, "null")
    \/ FileDataResolves(d, "throws")
    \/ VectorizeResolves(d, "vectorized")
    \/ VectorizeResolves(d, "notVectorized")
    \/ VectorizeResolves(d, "throws")
    \/ RetrySleepEnds(d)

\* C8: whatever happens to the other documents of its batch, a document's
\* call can always go on (a waiting one has a running one before it) until
\* it settles with a result; once the batch is sorted into the report every
\* document of it that succeeded is listed in embedded and every one that
\* failed (not loaded, not vectorized, or an error thrown, after its
\* retries) is listed in failedToEmbed with its error in errors;
\* processDocuments can always go on until it returns, and it returns with
\* every batch sorted into the report.
C8_SiblingsUnaffected ==
    /\ \A d \in DOMAIN doc :
          /\ Active(d) => ENABLED DocStep(d)
          /\ doc[d].pc = "waiting" =>
                /\ d \in Range(limiter.queue)
                /\ \E e \in DOMAIN doc : Active(e)
          /\ Collected(BatchOf(d)) =>
                /\ doc[d].pc = "settled"
                /\ doc[d].result.settled = "fulfilled"
                /\ doc[d].result.success =>
                      (ListedEmbedded(d) = 1 /\ ListedFailed(d) = 0)
                /\ ~doc[d].result.success =>
                      /\ ListedEmbedded(d) = 0
                      /\ ListedFailed(d) = 1
                      /\ doc[d].result.filename \in Range(results.failedToEmbed)
                      /\ doc[d].result.error \in results.errors
    /\ procPc \notin {"none", "returned"} => ENABLED ProcessorNext
    /\ procPc = "returned" => \A d \in DOMAIN doc : Collected(BatchOf(d))

\* C8 witness: processDocuments returned a report in which a document that
\* threw in every attempt is listed as failed and a later document of the
\* same batch, which ran together with it, as embedded
C8_Witness ==
    /\ procPc = "returned"
    /\ limiter.limit >= 2
    /\ \E d, e \in DOMAIN doc :
          /\ d < e
          /\ BatchOf(d) = BatchOf(e)
          /\ doc[d].result.error = "error.message"
          /\ doc[d].attempt >= 2
          /\ ListedFailed(d) = 1
          /\ doc[e].result.success
          /\ ListedEmbedded(e) = 1

\* a step in which the processing of path d meets a permanent input error:
\* fileData returned null, or addDocumentToNamespace found no content
C16_MeetsInputError(d) ==
    \/ /\ doc[d].pc = "loading"
       /\ doc'[d].result.error = "Failed to load document data"
    \/ /\ doc[d].pc = "vectorizingEmpty"
       /\ doc'[d] # doc[d]

\* C16: the attempt that meets a permanent input error is the document's
\* last: the document is given up in that step, with a failure result, and
\* not put to sleep for another attempt.
C16_InputErrorNotRetried ==
    [][\A d \in DOMAIN doc :
          C16_MeetsInputError(d) =>
              (doc'[d].pc = "settled" /\ ~doc'[d].result.success)]_vars

(***************************************************************************)
(* One document from processSingleDocument down to the provider calls      *)
(***************************************************************************)
(* The document was loaded and split; `limiter` is the limiter of the      *)
(* embedder made for the attempt, and the limiter of the processor holds   *)
(* the one document.                                                       *)
(***************************************************************************)
DocumentInit ==
    /\ EmbedInit
    /\ Len(task) = 1
    /\ documentPaths = <<1>>
    /\ batchSize = 1
    /\ retryAttempts \in 1..MaxAttempts
    /\ doc = <<[NewDoc EXCEPT !.pc = "vectorizing", !.attempt = 1]>>
    /\ batchIndex = 1
    /\ results = [embedded |-> <<>>, failedToEmbed |-> <<>>, errors |-> {}]
    /\ stats = [total |-> 1, processed |-> 0, failed |-> 0]
    /\ rows = {}
    /\ creates = <<>>
    /\ procPc = "batch"
    /\ SearchOff
    /\ StoreOff
    /\ TiersOff /\ UploadOff

\* addDocumentToNamespace returned: processSingleDocument returns the
\* success result, or goes through its retry logic
AddDocumentReturns ==
    /\ doc[1].pc = "vectorizing"
    /\ phase \in {"vectorized", "notVectorized"}
    /\ LET o == [lim |-> Occupy(NewLimiter(1)), doc |-> doc]
       IN  doc' = (IF phase = "vectorized"
                   THEN DocSettle(o, 1, Success(1))
                   ELSE RetryOrFail(o, 1, TitleOrName(1), "Vectorization failed")).doc
    /\ UNCHANGED <<limiterVars, rotatorVars, embedVars, documentPaths, batchSize,
                   retryAttempts, batchIndex, results, stats, rows, creates, procPc>>

\* sleep(this.retryDelay * attempt) is over: processSingleDocument loads the
\* document again and calls addDocumentToNamespace, which makes a new
\* embedder (the rotator is the same) and splits the text again
DocumentRetried ==
    /\ doc[1].pc = "sleeping"
    /\ doc' = <<[NewDoc EXCEPT !.pc = "vectorizing", !.attempt = doc[1].attempt + 1]>>
    /\ limiter' = NewLimiter(limiter.limit)
    /\ task' = [b \in DOMAIN task |-> NewTask]
    /\ phase' = "split"
    /\ vectorValues' = <<>>
    /\ submission' = <<>>
    /\ UNCHANGED <<unit, rotatorVars, textChunks, maxBatchSize, ledger, upserted,
                   documentPaths, batchSize, retryAttempts, batchIndex, results,
                   stats, rows, creates, procPc>>

DocumentNext ==
    \/ EmbedChunks /\ UNCHANGED docVars /\ UNCHANGED searchVars /\ UNCHANGED <<storeVars, tiers, upload>>
    \/ \E b \in DOMAIN task : BatchResponds(b, "ok") /\ UNCHANGED docVars /\ UNCHANGED searchVars /\ UNCHANGED <<storeVars, tiers, upload>>
    \/ \E b \in DOMAIN task : BatchResponds(b, "rateLimit") /\ UNCHANGED docVars /\ UNCHANGED searchVars /\ UNCHANGED <<storeVars, tiers, upload>>
    \/ \E b \in DOMAIN task : BatchResponds(b, "error") /\ UNCHANGED docVars /\ UNCHANGED searchVars /\ UNCHANGED <<storeVars, tiers, upload>>
    \/ \E b \in DOMAIN task : RetryWakes(b) /\ UNCHANGED docVars /\ UNCHANGED searchVars /\ UNCHANGED <<storeVars, tiers, upload>>
    \/ \E b \in DOMAIN task : ChunkEmbedded(b) /\ UNCHANGED docVars /\ UNCHANGED searchVars /\ UNCHANGED <<storeVars, tiers, upload>>
    \/ \E b \in DOMAIN task : ChunkFails(b) /\ UNCHANGED docVars /\ UNCHANGED searchVars /\ UNCHANGED <<storeVars, tiers, upload>>
    \/ \E b \in DOMAIN task : ChunkSleepEnds(b) /\ UNCHANGED docVars /\ UNCHANGED searchVars /\ UNCHANGED <<storeVars, tiers, upload>>
    \/ EmbedChunksReturns /\ UNCHANGED docVars /\ UNCHANGED searchVars /\ UNCHANGED <<storeVars, tiers, upload>>
    \/ Upsert /\ UNCHANGED docVars /\ UNCHANGED searchVars /\ UNCHANGED <<storeVars, tiers, upload>>
    \/ UpsertFails /\ UNCHANGED docVars /\ UNCHANGED searchVars /\ UNCHANGED <<storeVars, tiers, upload>>
    \/ RecordingFails /\ UNCHANGED docVars /\ UNCHANGED searchVars /\ UNCHANGED <<storeVars, tiers, upload>>
    \/ AddDocumentReturns /\ UNCHANGED searchVars /\ UNCHANGED <<storeVars, tiers, upload>>
    \/ DocumentRetried /\ UNCHANGED searchVars /\ UNCHANGED <<storeVars, tiers, upload>>

DocumentSpec == DocumentInit /\ [][DocumentNext]_vars

HashPrefix == 200

Whitespace == {9, 10, 11, 12, 13, 32}

\* text.substring(0, n)
Substring(text, n) == SubSeq(text, 1, IF Len(text) < n THEN Len(text) ELSE n)

ToLowerCase(text) ==
    [i \in DOMAIN text |-> IF text[i] \in 65..90 THEN text[i] + 32 ELSE text[i]]

RECURSIVE TrimStart(_)
TrimStart(text) ==
    IF text # <<>> /\ Head(text) \in Whitespace THEN TrimStart(Tail(text)) ELSE text

RECURSIVE TrimEnd(_)
TrimEnd(text) ==
    IF text # <<>> /\ text[Len(text)] \in Whitespace
    THEN TrimEnd(SubSeq(text, 1, Len(text) - 1))
    ELSE text

Trim(text) == TrimEnd(TrimStart(text))

\* A 32-bit integer is kept as its two 16-bit halves, so that no
\* intermediate value leaves the 32 bits.
\* hash = ((hash << 5) - hash) + char; hash = hash & hash
HashStep(h, char) ==
    LET low == h.lo * 31 + char
    IN  [hi |-> (h.hi * 31 + (low \div 65536)) % 65536, lo |-> low % 65536]

\* the signed value of the 32 bits
ToInt32(h) ==
    IF h.hi >= 32768 THEN (h.hi - 65536) * 65536 + h.lo ELSE h.hi * 65536 + h.lo

RECURSIVE HashFrom(_, _, _)
HashFrom(h, normalized, i) ==
    IF i > Len(normalized) THEN h
    ELSE HashFrom(HashStep(h, normalized[i]), normalized, i + 1)

\* the digits of |n| in base 36, most significant first
RECURSIVE Digits36(_)
Digits36(n) ==
    IF n >= 0
    THEN IF n < 36 THEN <<n>> ELSE Digits36(n \div 36) \o <<n % 36>>
    ELSE LET r == (36 - (n % 36)) % 36
             q == (-(n + r)) \div 36
         IN  IF q = 0 THEN <<r>> ELSE Digits36(q) \o <<r>>

\* n.toString(36): a sign and the digits
ToString36(n) == [negative |-> n < 0, digits |-> Digits36(n)]

HashText(text) ==
    IF text = <<>> THEN ToString36(0)
    ELSE LET normalized == Trim(ToLowerCase(Substring(text, HashPrefix)))
         IN  ToString36(ToInt32(HashFrom([hi |-> 0, lo |-> 0], normalized, 1)))

\* `${result.docId || result.id}_${hashText(result.text || '')}`: no digit of
\* the hash is an underscore, so the key is the pair
DedupKey(result) ==
    <<IF result.docId # NULL THEN result.docId ELSE result.id, HashText(result.text)>>

\* Mutant: a key seen a second time is forgotten, so that its third
\* occurrence is kept again
RECURSIVE DeduplicateForgetting(_, _, _, _)
DeduplicateForgetting(res, i, seen, kept) ==
    IF i > Len(res) THEN kept
    ELSE IF DedupKey(res[i]) \notin seen
         THEN DeduplicateForgetting(res, i + 1, seen \cup {DedupKey(res[i])}, Append(kept, res[i]))
         ELSE DeduplicateForgetting(res, i + 1, seen \ {DedupKey(res[i])}, kept)

RECURSIVE DeduplicateFrom(_, _, _, _)
DeduplicateFrom(res, i, seen, kept) ==
    IF i > Len(res) THEN kept
    ELSE IF DedupKey(res[i]) \notin seen
         THEN DeduplicateFrom(res, i + 1, seen \cup {DedupKey(res[i])}, Append(kept, res[i]))
         ELSE DeduplicateFrom(res, i + 1, seen, kept)

DeduplicateResults(res) == DeduplicateFrom(res, 1, {}, <<>>)

\* "Judgment", " judgment ", "Judgmenu" and the empty text
DedupTexts ==
    {<<74, 117, 100, 103, 109, 101, 110, 116>>,
     <<32, 106, 117, 100, 103, 109, 101, 110, 116, 32>>,
     <<74, 117, 100, 103, 109, 101, 110, 117>>,
     <<>>}

NewResult(docId, id, text) ==
    [docId |-> docId, id |-> id, text |-> text, score |-> 80, title |-> TRUE,
     metadata |-> TRUE, citation |-> TRUE, sourceTag |-> NULL, validated |-> FALSE]

DedupResults ==
    {NewResult(docId, id, text) : docId \in {NULL, 1}, id \in {1, 2}, text \in DedupTexts}

ResultLists(S, n) == UNION {[1..k -> S] : k \in 0..n}

DedupInit ==
    /\ candidates \in ResultLists(DedupResults, MaxResults)
    /\ deduped = <<>>
    /\ validated = <<>>
    /\ bm25 = [pc |-> "off"]
    /\ query = [pc |-> "off"]

\* deduplicateResults is called on the candidates, and then on what it returned
Deduplicate ==
    /\ Len(deduped) <= 1
    /\ deduped' = Append(deduped,
                     DeduplicateResults(IF deduped = <<>> THEN candidates
                                        ELSE deduped[Len(deduped)]))
    /\ UNCHANGED <<query, candidates, validated, bm25>>

DedupNext ==
    \/ Deduplicate /\ UNCHANGED <<limiterVars, rotatorVars, embedVars, docVars, storeVars, tiers, upload>>

DedupSpecInit ==
    DedupInit /\ LimiterOff /\ RotatorOff /\ EmbedOff /\ ProcessorOff /\ StoreOff /\ TiersOff /\ UploadOff

DedupSpec == DedupSpecInit /\ [][DedupNext]_vars

\* C20: deduplicateResults is idempotent: applied to the list it returned, it
\* returns the same candidates in the same order.
C20_DedupIdempotent ==
    Len(deduped) = 2 => deduped[2] = deduped[1]

\* candidates with different texts but one key were merged, others were kept
C20_Witness ==
    /\ Len(deduped) = 2
    /\ Len(deduped[1]) >= 2
    /\ \E i, j \in DOMAIN candidates :
           /\ i < j
           /\ candidates[i].text # candidates[j].text
           /\ candidates[i].text # <<>>
           /\ DedupKey(candidates[i]) = DedupKey(candidates[j])

(***************************************************************************)
(* HybridSearchManager.search                                              *)
(***************************************************************************)
Paths == {"vector", "metadata", "bm25"}

\* "Judgment of the court"
LongText == <<74, 117, 100, 103, 109, 101, 110, 116, 32, 111, 102, 32, 116, 104, 101, 32, 99, 111, 117, 114, 116>>

Source(docId, score) ==
    [docId |-> docId, id |-> NULL, text |-> LongText, score |-> score,
     title |-> TRUE, metadata |-> FALSE, citation |-> FALSE,
     sourceTag |-> NULL, validated |-> FALSE]

\* a row of legal_judgment_metadata: no text, no score
Row(docId) ==
    [docId |-> docId, id |-> NULL, text |-> <<>>, score |-> 0,
     title |-> TRUE, metadata |-> TRUE, citation |-> TRUE,
     sourceTag |-> NULL, validated |-> FALSE]

\* what the store behind a path may answer; the vector store may answer a
\* source whose text is "ok"
Outs(p) ==
    CASE p = "vector" -> {<<>>, <<Source(1, 80)>>, <<Source(1, 80), Source(2, 40)>>,
                          <<[Source(3, 90) EXCEPT !.text = <<111, 107>>]>>}
      [] p = "metadata" -> {<<>>, <<Row(2)>>}
      [] p = "bm25" -> {<<>>, <<Source(2, 100)>>, <<Source(3, 100), Source(1, 50)>>}

Pending == [state |-> "pending", out |-> <<>>, threw |-> FALSE]
Resolved(out) == [state |-> "resolved", out |-> out, threw |-> FALSE]

\* Mutant: the path lets the error of its store through
PathFailureRethrown == [state |-> "rejected", out |-> <<>>, threw |-> TRUE]

\* the catch of performVectorSearch, performMetadataSearch and
\* performBM25Search: the error is logged and the path resolves to []
PathFailure == [state |-> "resolved", out |-> <<>>, threw |-> TRUE]

DocIdsOf(list) == {list[i].docId : i \in DOMAIN list}

FirstOf(list, docId) ==
    list[CHOOSE i \in DOMAIN list :
            /\ list[i].docId = docId
            /\ \A j \in 1..(i - 1) : list[j].docId # docId]

\* a raw score divided by the maximum of its path, in hundredths
PathMax(list) ==
    IF list = <<>> THEN 0
    ELSE CHOOSE m \in {list[i].score : i \in DOMAIN list} :
             \A i \in DOMAIN list : list[i].score <= m

NormalizedScore(list, docId) ==
    IF docId \notin DocIdsOf(list) \/ PathMax(list) = 0 THEN 0
    ELSE (FirstOf(list, docId).score * 100) \div PathMax(list)

\* HybridReranker.rerank without a hosted reranker: the weights 0.4, 0.2
\* and 0.1 renormalized, 10% more for a candidate of two paths or more
Fused(vectorResults, metadataResults, bm25Results, docId) ==
    LET semantic == NormalizedScore(vectorResults, docId)
        keyword == NormalizedScore(bm25Results, docId)
        match == IF docId \in DocIdsOf(metadataResults) THEN 100 ELSE 0
        found == {l \in {1, 2, 3} :
                    docId \in DocIdsOf(<<vectorResults, bm25Results, metadataResults>>[l])}
        composite == (40 * semantic + 20 * keyword + 10 * match) \div 70
        first == <<vectorResults, bm25Results, metadataResults>>[
                     CHOOSE l \in found : \A k \in found : l <= k]
    IN  [FirstOf(first, docId) EXCEPT
            !.score = IF Cardinality(found) >= 2 THEN (composite * 110) \div 100
                      ELSE composite]

RECURSIVE Ranked(_)
Ranked(S) ==
    IF S = {} THEN <<>>
    ELSE LET best == CHOOSE a \in S :
                        \A b \in S : \/ a.score > b.score
                                     \/ a.score = b.score /\ a.docId <= b.docId
         IN  <<best>> \o Ranked(S \ {best})

Rerank(vectorResults, metadataResults, bm25Results, maxResults) ==
    LET ids == DocIdsOf(vectorResults) \cup DocIdsOf(metadataResults)
                  \cup DocIdsOf(bm25Results)
        ranked == Ranked({Fused(vectorResults, metadataResults, bm25Results, docId) :
                             docId \in ids})
    IN  Substring(ranked, maxResults)

\* enrichResultsWithMetadata: a result whose docId has a legal metadata row
\* gets legalMetadata and the court, year and citation of the row
EnrichResultsWithMetadata(res, legal) ==
    [i \in DOMAIN res |->
        IF res[i].docId # NULL /\ res[i].docId \in legal
        THEN [res[i] EXCEPT !.metadata = TRUE, !.citation = TRUE]
        ELSE res[i]]

\* addSourceTagging: sourceTag is the position in the list
AddSourceTagging(res) ==
    [i \in DOMAIN res |-> [res[i] EXCEPT !.sourceTag = i]]

\* calculateQualityScore, in ten-thousandths
CalculateQualityScore(result) ==
    LET textLength == Len(result.text)
        sum == (IF textLength * 10 < 3000 THEN textLength * 10 ELSE 3000)
               + (IF result.metadata THEN 2000 ELSE 0)
               + (IF result.citation THEN 2000 ELSE 0)
               + result.score * 30
    IN  IF sum < 10000 THEN sum ELSE 10000

IsValid(result) ==
    /\ Len(result.text) > 10
    /\ result.score > 0
    /\ result.title
    /\ CalculateQualityScore(result) >= 3000

ValidateResults(res) ==
    LET passed == SelectSeq(res, IsValid)
    IN  [i \in DOMAIN passed |-> [passed[i] EXCEPT !.validated = TRUE]]

\* steps 3 to 7 of search
Fusion(q, legal) ==
    ValidateResults(DeduplicateResults(AddSourceTagging(EnrichResultsWithMetadata(
        Rerank(q.path["vector"].out, q.path["metadata"].out, q.path["bm25"].out,
               q.topN),
        legal))))

SearchInit ==
    /\ \E filters, enableBM25 \in BOOLEAN, topN \in 1..MaxTopN :
          query = [pc |-> "called", filters |-> filters, enableBM25 |-> enableBM25,
                   topN |-> topN, path |-> [p \in Paths |-> Resolved(<<>>)],
                   via |-> "none", result |-> <<>>]
    /\ candidates = <<>>
    /\ deduped = <<>>
    /\ validated = <<>>
    /\ bm25 = [pc |-> "off"]

\* search up to await Promise.all(searchPromises): the vector path always
\* runs, the metadata path when there are filters, the BM25 path when enabled
Search ==
    /\ query.pc = "called"
    /\ query' = [query EXCEPT
          !.pc = "awaiting",
          !.path = [p \in Paths |->
                       IF \/ p = "vector"
                          \/ p = "metadata" /\ query.filters
                          \/ p = "bm25" /\ query.enableBM25
                       THEN Pending ELSE Resolved(<<>>)]]
    /\ UNCHANGED <<candidates, deduped, validated, bm25>>

\* the store of a path answers
PathAnswers(p, out) ==
    /\ query.pc = "awaiting"
    /\ query.path[p].state = "pending"
    /\ query' = [query EXCEPT !.path[p] = Resolved(out)]
    /\ UNCHANGED <<candidates, deduped, validated, bm25>>

\* the store of a path throws
PathThrows(p) ==
    /\ query.pc = "awaiting"
    /\ query.path[p].state = "pending"
    /\ query' = [query EXCEPT !.path[p] = PathFailure]
    /\ UNCHANGED <<candidates, deduped, validated, bm25>>

\* Promise.all settles: it resolves once every path has resolved, and
\* rejects as soon as one has rejected, which takes search to its catch
PromiseAllSettles ==
    /\ query.pc = "awaiting"
    /\ \/ \A p \in Paths : query.path[p].state = "resolved"
       \/ \E p \in Paths : query.path[p].state = "rejected"
    /\ query' = [query EXCEPT
          !.pc = IF \E p \in Paths : query.path[p].state = "rejected"
                 THEN "fallback" ELSE "reranking"]
    /\ UNCHANGED <<candidates, deduped, validated, bm25>>

\* rerank resolves; enrichment (its errors are swallowed), source tagging,
\* deduplication and validation follow, and search returns
RerankReturns(legal) ==
    /\ query.pc = "reranking"
    /\ query' = [query EXCEPT !.pc = "returned", !.via = "fusion",
                              !.result = Fusion(query, legal)]
    /\ UNCHANGED <<candidates, deduped, validated, bm25>>

\* rerank rejects: the catch of search calls performVectorSearch
RerankThrows ==
    /\ query.pc = "reranking"
    /\ query' = [query EXCEPT !.pc = "fallback"]
    /\ UNCHANGED <<candidates, deduped, validated, bm25>>

\* what search returns from its catch, or that it throws
Fallback(q, vector) ==
    IF vector.state = "rejected" THEN [q EXCEPT !.pc = "threw", !.via = "fallback"]
    ELSE [q EXCEPT !.pc = "returned", !.via = "fallback", !.result = vector.out]

FallbackAnswers(out) ==
    /\ query.pc = "fallback"
    /\ Len(out) <= query.topN
    /\ query' = Fallback(query, Resolved(out))
    /\ UNCHANGED <<candidates, deduped, validated, bm25>>

FallbackThrows ==
    /\ query.pc = "fallback"
    /\ query' = Fallback(query, PathFailure)
    /\ UNCHANGED <<candidates, deduped, validated, bm25>>

SearchNext ==
    \/ Search /\ UNCHANGED <<limiterVars, rotatorVars, embedVars, docVars, storeVars, tiers, upload>>
    \/ \E p \in Paths : \E out \in Outs(p) : PathAnswers(p, out) /\ UNCHANGED <<limiterVars, rotatorVars, embedVars, docVars, storeVars, tiers, upload>>
    \/ \E p \in Paths : PathThrows(p) /\ UNCHANGED <<limiterVars, rotatorVars, embedVars, docVars, storeVars, tiers, upload>>
    \/ PromiseAllSettles /\ UNCHANGED <<limiterVars, rotatorVars, embedVars, docVars, storeVars, tiers, upload>>
    \/ \E legal \in SUBSET {1, 2, 3} : RerankReturns(legal) /\ UNCHANGED <<limiterVars, rotatorVars, embedVars, docVars, storeVars, tiers, upload>>
    \/ RerankThrows /\ UNCHANGED <<limiterVars, rotatorVars, embedVars, docVars, storeVars, tiers, upload>>
    \/ \E out \in Outs("vector") : FallbackAnswers(out) /\ UNCHANGED <<limiterVars, rotatorVars, embedVars, docVars, storeVars, tiers, upload>>
    \/ FallbackThrows /\ UNCHANGED <<limiterVars, rotatorVars, embedVars, docVars, storeVars, tiers, upload>>

SearchSpecInit ==
    SearchInit /\ LimiterOff /\ RotatorOff /\ EmbedOff /\ ProcessorOff /\ StoreOff /\ TiersOff /\ UploadOff

SearchSpec == SearchSpecInit /\ [][SearchNext]_vars

\* what a path contributes to the fusion: nothing when its store threw
Contribution(p) == IF query.path[p].threw THEN <<>> ELSE query.path[p].out

\* C18: search never throws; when retrieval paths failed, what the fusion
\* returns is fused from the answers of the other paths alone, and it is
\* the empty list when the three paths failed.
C18_NeverThrowsAndDegrades ==
    /\ query.pc # "threw"
    /\ (query.pc = "returned" /\ query.via = "fusion") =>
          /\ \E legal \in SUBSET {1, 2, 3} :
                query.result =
                    ValidateResults(DeduplicateResults(AddSourceTagging(
                        EnrichResultsWithMetadata(
                            Rerank(Contribution("vector"), Contribution("metadata"),
                                   Contribution("bm25"), query.topN),
                            legal))))
          /\ \A i \in DOMAIN query.result :
                \E p \in Paths :
                    /\ ~query.path[p].threw
                    /\ query.result[i].docId \in DocIdsOf(query.path[p].out)
          /\ (\A p \in Paths : query.path[p].threw) => query.result = <<>>
    /\ (query.pc = "returned" /\ query.via = "fallback") =>
          Len(query.result) <= query.topN

\* the vector path failed and the query returned the results of another path
C18_Witness ==
    /\ query.pc = "returned"
    /\ query.via = "fusion"
    /\ query.path["vector"].threw
    /\ ~query.path["bm25"].threw
    /\ query.result # <<>>

\* the three paths failed and the query returned
C18_WitnessAllFail ==
    /\ query.pc = "returned"
    /\ query.via = "fusion"
    /\ \A p \in Paths : query.path[p].threw

\* The steps of a query up to the fusion, but the answer of the vector
\* store: the other stores answer or throw, and search itself does not stall.
SearchProgress ==
    /\ \/ Search
       \/ \E p \in {"metadata", "bm25"} : \E out \in Outs(p) : PathAnswers(p, out)
       \/ \E p \in {"metadata", "bm25"} : PathThrows(p)
       \/ PromiseAllSettles
    /\ UNCHANGED <<limiterVars, rotatorVars, embedVars, docVars, storeVars, tiers, upload>>

\* a query whose vector store may never answer
LiveSearchSpec ==
    SearchSpecInit /\ [][SearchNext]_vars /\ WF_vars(SearchProgress)

\* C19: a query that waits for its retrieval paths eventually proceeds to
\* the fusion, also when one path never completes.
C19_SlowPathDoesNotBlock ==
    (query.pc = "awaiting") ~> (query.pc # "awaiting")

(***************************************************************************)
(* deduplicateResults on results that carry different scores               *)
(***************************************************************************)
\* results of two documents, with texts of one hash, scoring 0.6 or 0.8
ScoredResults ==
    {[NewResult(docId, NULL, text) EXCEPT !.score = score] :
        docId \in {1, 2},
        text \in {<<74, 117, 100, 103, 109, 101, 110, 116>>,
                  <<32, 106, 117, 100, 103, 109, 101, 110, 116, 32>>},
        score \in {60, 80}}

ScoredDedupSpecInit ==
    /\ candidates \in ResultLists(ScoredResults, MaxResults)
    /\ deduped = <<>>
    /\ validated = <<>>
    /\ bm25 = [pc |-> "off"]
    /\ query = [pc |-> "off"]
    /\ LimiterOff /\ RotatorOff /\ EmbedOff /\ ProcessorOff /\ StoreOff /\ TiersOff /\ UploadOff

ScoredDedupSpec == ScoredDedupSpecInit /\ [][DedupNext]_vars

\* C21: of the candidates that share a deduplication key, exactly one is
\* kept, and it is one with the highest score.
C21_HighestScoreKept ==
    Len(deduped) >= 1 =>
        \A i \in DOMAIN candidates :
            LET key == DedupKey(candidates[i])
                sharing == {j \in DOMAIN candidates : DedupKey(candidates[j]) = key}
                kept == {k \in DOMAIN deduped[1] : DedupKey(deduped[1][k]) = key}
            IN  /\ Cardinality(kept) = 1
                /\ \A k \in kept : \A j \in sharing :
                       deduped[1][k].score >= candidates[j].score

\* C22: two candidates of different documents, with identical first 200
\* normalized characters and scores 0.8 and 0.6, are deduplicated to the
\* single result scoring 0.8.
C22_OneResultAcrossDocuments ==
    (/\ Len(deduped) >= 1
     /\ Len(candidates) = 2
     /\ candidates[1].docId # candidates[2].docId
     /\ HashText(candidates[1].text) = HashText(candidates[2].text)
     /\ {candidates[1].score, candidates[2].score} = {60, 80})
    => (Len(deduped[1]) = 1 /\ deduped[1][1].score = 80)

(***************************************************************************)
(* validateResults                                                         *)
(***************************************************************************)
\* results with a text of 2, 10 or 11 characters ("ok", "Judgment A",
\* "Judgment AB"), scoring 0 or 0.8, with or without a title, metadata and
\* a citation
ValidationResults ==
    {[docId |-> 1, id |-> NULL, text |-> text, score |-> score, title |-> title,
      metadata |-> metadata, citation |-> citation, sourceTag |-> 1,
      validated |-> FALSE] :
        text \in {<<111, 107>>,
                  <<74, 117, 100, 103, 109, 101, 110, 116, 32, 65>>,
                  <<74, 117, 100, 103, 109, 101, 110, 116, 32, 65, 66>>},
        score \in {0, 80},
        title \in BOOLEAN, metadata \in BOOLEAN, citation \in BOOLEAN}

ValidateSpecInit ==
    /\ candidates \in ResultLists(ValidationResults, 2)
    /\ deduped = <<>>
    /\ validated = <<>>
    /\ bm25 = [pc |-> "off"]
    /\ query = [pc |-> "off"]
    /\ LimiterOff /\ RotatorOff /\ EmbedOff /\ ProcessorOff /\ StoreOff /\ TiersOff /\ UploadOff

\* validateResults is called on the candidates
Validate ==
    /\ validated = <<>>
    /\ validated' = <<ValidateResults(candidates)>>
    /\ UNCHANGED <<query, candidates, deduped, bm25>>

ValidateNext ==
    \/ Validate /\ UNCHANGED <<limiterVars, rotatorVars, embedVars, docVars, storeVars, tiers, upload>>

ValidateSpec == ValidateSpecInit /\ [][ValidateNext]_vars

\* the condition under which the claim keeps a candidate
C23_Keeps(result) ==
    /\ Len(result.text) >= 10
    /\ result.score > 0
    /\ result.title \/ result.metadata
    /\ CalculateQualityScore(result) >= 3000

\* C23: validateResults returns, in input order, exactly the candidates
\* whose text has at least 10 characters, whose relevance score is greater
\* than 0, that have a title or metadata, and whose quality score is at
\* least 0.3.
C23_KeptExactlyWhenValid ==
    validated # <<>> =>
        LET kept == SelectSeq(candidates, C23_Keeps)
        IN  /\ Len(validated[1]) = Len(kept)
            /\ \A i \in DOMAIN kept :
                   validated[1][i] = [kept[i] EXCEPT !.validated = TRUE]

\* C24: every result that search returns has passed validation; a result
\* whose text is "ok" and that has no metadata is never returned.
C24_ReturnedResultsValidated ==
    query.pc = "returned" =>
        \A i \in DOMAIN query.result :
            /\ query.result[i].validated
            /\ IsValid(query.result[i])
            /\ ~(query.result[i].text = <<111, 107>> /\ ~query.result[i].metadata)

(***************************************************************************)
(* performBM25Search, BM25.search and BM25.normalizeScores                 *)
(***************************************************************************)
(* Scores are in hundredths.  bm25.raw[i] is what scoreDocument returns    *)
(* for the document at index i of the workspace.  An entry of BM25.search  *)
(* has index, score and document; it has no bm25Score (NULL here).         *)
(***************************************************************************)
RawScores == {0, 98, 163}

\* scores.sort((a, b) => b.score - a.score): descending and stable
RECURSIVE SortByScore(_)
SortByScore(entries) ==
    IF entries = <<>> THEN <<>>
    ELSE LET first == CHOOSE i \in DOMAIN entries :
                         /\ \A j \in DOMAIN entries : entries[j].score <= entries[i].score
                         /\ \A j \in 1..(i - 1) : entries[j].score < entries[i].score
         IN  <<entries[first]>>
                 \o SortByScore(SubSeq(entries, 1, first - 1)
                                   \o SubSeq(entries, first + 1, Len(entries)))

\* Mutant: only the documents that match the query are returned
Bm25SearchMatching(raw, topK) ==
    Substring(SortByScore(SelectSeq([i \in DOMAIN raw |->
                                        [index |-> i - 1, score |-> raw[i], document |-> i,
                                         bm25Score |-> NULL]],
                                    LAMBDA entry : entry.score > 0)),
              topK)

\* BM25.search(query, topK)
Bm25Search(raw, topK) ==
    Substring(SortByScore([i \in DOMAIN raw |->
                              [index |-> i - 1, score |-> raw[i], document |-> i,
                               bm25Score |-> NULL]]),
              topK)

\* r.bm25Score || 0
Bm25ScoreOrZero(r) == IF r.bm25Score = NULL THEN 0 ELSE r.bm25Score

\* BM25.normalizeScores(results)
NormalizeScores(res) ==
    IF res = <<>> THEN res
    ELSE LET maxScore == CHOOSE m \in {Bm25ScoreOrZero(res[i]) : i \in DOMAIN res} :
                            \A i \in DOMAIN res : Bm25ScoreOrZero(res[i]) <= m
         IN  IF maxScore = 0 THEN res
             ELSE [i \in DOMAIN res |->
                      [res[i] EXCEPT !.bm25Score = (Bm25ScoreOrZero(res[i]) * 100) \div maxScore]]

\* bm25.normalizeScores(results).map(r => ({...r.document, bm25Score: r.score,
\* source: 'bm25'}))
Bm25Results(raw, topK) ==
    LET normalized == NormalizeScores(Bm25Search(raw, topK))
    IN  [i \in DOMAIN normalized |->
            [docId |-> normalized[i].document, bm25Score |-> normalized[i].score,
             source |-> "bm25"]]

Bm25Init ==
    \E n \in 0..MaxIndexDocs : \E raw \in [1..n -> RawScores] : \E topN \in 1..MaxTopN :
        bm25 = [pc |-> "called", raw |-> raw, topN |-> topN, out |-> <<>>]

\* getAllWorkspaceDocuments resolved with the documents of the workspace:
\* none, or the index is built, searched, and the results are returned
Bm25DocumentsResolve ==
    /\ bm25.pc = "called"
    /\ bm25' = [bm25 EXCEPT !.pc = "returned",
                            !.out = IF bm25.raw = <<>> THEN <<>>
                                    ELSE Bm25Results(bm25.raw, bm25.topN)]
    /\ UNCHANGED <<query, candidates, deduped, validated>>

\* Document.where threw: getAllWorkspaceDocuments resolves to []
Bm25DocumentsFail ==
    /\ bm25.pc = "called"
    /\ bm25' = [bm25 EXCEPT !.pc = "returned", !.out = <<>>]
    /\ UNCHANGED <<query, candidates, deduped, validated>>

Bm25Next ==
    \/ Bm25DocumentsResolve /\ UNCHANGED <<limiterVars, rotatorVars, embedVars, docVars, storeVars, tiers, upload>>
    \/ Bm25DocumentsFail /\ UNCHANGED <<limiterVars, rotatorVars, embedVars, docVars, storeVars, tiers, upload>>

Bm25SpecInit ==
    /\ Bm25Init
    /\ query = [pc |-> "off"]
    /\ candidates = <<>>
    /\ deduped = <<>>
    /\ validated = <<>>
    /\ LimiterOff /\ RotatorOff /\ EmbedOff /\ ProcessorOff /\ StoreOff /\ TiersOff /\ UploadOff

Bm25Spec == Bm25SpecInit /\ [][Bm25Next]_vars

\* C25: every bm25Score that performBM25Search returns lies in [0, 1]: it
\* is the raw score divided by the maximum raw score of the result set, and
\* 0 when that maximum is 0.
C25_ScoresNormalized ==
    bm25.pc = "returned" =>
        \A i \in DOMAIN bm25.out :
            LET maxRaw == CHOOSE m \in RawScores :
                             /\ \E k \in DOMAIN bm25.out : bm25.raw[bm25.out[k].docId] = m
                             /\ \A k \in DOMAIN bm25.out : bm25.raw[bm25.out[k].docId] <= m
                score == bm25.out[i].bm25Score
            IN  /\ score \in 0..100
                /\ score = IF maxRaw = 0 THEN 0
                           ELSE (bm25.raw[bm25.out[i].docId] * 100) \div maxRaw

(***************************************************************************)
(* bulkInsertDocuments: the fallback to individual writes                  *)
(***************************************************************************)
\* C26: after a failed bulk write, the succeeded documents of the batch are
\* created one by one in their order, each exactly once; a create that
\* throws does not stop the loop, every create that did not throw left its
\* row, and the batch goes on to the pause or to the return with its
\* documents still listed as embedded.
C26_FallbackWritesEveryDocument ==
    (procPc \in {"creating", "pausing", "returned"} /\ batchIndex >= 1) =>
        LET documents == SuccessfulDocs(DocBatches[batchIndex])
        IN  /\ Len(creates) <= Len(documents)
            /\ \A i \in DOMAIN creates :
                  /\ creates[i].doc = documents[i]
                  /\ creates[i].ok => documents[i] \in rows
            /\ procPc = "creating" => Len(creates) < Len(documents)
            /\ (procPc # "creating" /\ creates # <<>>) =>
                  /\ Len(creates) = Len(documents)
                  /\ procPc = NextBatchOrReturn
                  /\ Range(documents) \subseteq Range(results.embedded)

\* the first create threw and the second document was written
C26_Witness ==
    /\ procPc \in {"pausing", "returned"}
    /\ Len(creates) >= 2
    /\ ~creates[1].ok
    /\ creates[2].ok
    /\ creates[2].doc \in rows

\* C39: when processDocuments returns, every document listed in embedded
\* has its row in workspace_documents.  (A document listed in embedded is
\* never listed in failedToEmbed, and errors holds messages of failed
\* documents and batches only, so a missing row has nowhere else to show.)
C39_EmbeddedHaveRows ==
    procPc = "returned" => Range(results.embedded) \subseteq rows

(***************************************************************************)
(* ParallelQdrant.addDocumentToNamespace and processCachedVectors, await    *)
(* by await, called by processSingleDocument attempt after attempt          *)
(***************************************************************************)
\* "Optimized batch insertion (2000 vectors at once)"
UpsertLimit == 2000

\* toChunks(..., 500): the size of a chunk of the vector cache
CacheChunk == 500

\* the number of vectors embedChunks returns for the document
VectorCounts == {1, 2, 501, 2001}

\* vector.length of the first vector
Dimensions == {768, 3072}

\* uuidv4() of processSingleDocument: attempt a works under docId a, and the
\* vector ids generated under a docId are only ever paired with that docId
DocIds == 1..MaxAttempts

\* toChunks on a list of n items: the sizes of the chunks
RECURSIVE ToChunks(_, _)
ToChunks(n, size) ==
    IF n = 0 THEN <<>>
    ELSE IF n <= size THEN <<n>>
    ELSE <<size>> \o ToChunks(n - size, size)

\* the stores before the document is ingested: points and links count, per
\* docId, the vectors in the collection and the document_vectors rows
NewStore(cache) ==
    [collection |-> NULL,
     points     |-> [d \in DocIds |-> 0],
     links      |-> [d \in DocIds |-> 0],
     cache      |-> cache]

\* processSingleDocument calls addDocumentToNamespace(slug, {...data, docId}, path)
NewAdding(attempt, retries, n, dimension, payloadId) ==
    [pc              |-> "called",
     attempt         |-> attempt,
     retryAttempts   |-> retries,
     docId           |-> attempt,
     vectors         |-> n,
     dimension       |-> dimension,
     payloadId       |-> payloadId,
     chunks          |-> <<>>,
     documentVectors |-> 0,
     upserts         |-> <<>>,
     upsertFailed    |-> FALSE,
     outcome         |-> "none",
     succeeded       |-> {}]

StoreInit ==
    /\ \E n \in VectorCounts, dimension \in Dimensions, payloadId \in BOOLEAN,
          retries \in 1..MaxAttempts :
           /\ adding = NewAdding(1, retries, n, dimension, payloadId)
           /\ store \in {NewStore(<<>>), NewStore(ToChunks(n, CacheChunk))}

\* return { vectorized: ... } of addDocumentToNamespace
Returns(outcome) ==
    [adding EXCEPT !.pc = "returned", !.outcome = outcome]

\* the promise of addDocumentToNamespace rejects: processCachedVectors is
\* returned without await, the catch of addDocumentToNamespace does not see
\* what it throws
Rejects == Returns("rejected")

\* cachedVectorInformation(fullFilePath) resolved
CacheChecked ==
    /\ adding # <<>>
    /\ adding.pc = "called"
    /\ adding' = [adding EXCEPT !.pc = IF store.cache # <<>> THEN "cached"
                                       ELSE "embedding"]
    /\ UNCHANGED store

\* embedChunks returned the vectors, and the submission and documentVectors
\* are built, one entry per vector; or splitText or embedChunks threw, or no
\* vector came back
EmbedChunksSettles(ok) ==
    /\ adding # <<>>
    /\ adding.pc = "embedding"
    /\ adding' = (IF ok
                  THEN [adding EXCEPT !.pc = "prepared",
                                      !.documentVectors = adding.vectors]
                  ELSE Returns("notVectorized"))
    /\ UNCHANGED store

\* what getOrCreateCollection leaves of the collection
Ensured(dimension) ==
    [store EXCEPT !.collection = IF @ = NULL THEN dimension ELSE @]

\* connect() and getOrCreateCollection(client, namespace, vectorDimension);
\* not ok: connect() threw, or there is no collection
GetOrCreateCollection(ok) ==
    /\ adding # <<>>
    /\ adding.pc = "prepared"
    /\ store' = (IF ok THEN Ensured(adding.dimension) ELSE store)
    /\ adding' = (IF ok THEN [adding EXCEPT !.pc = "ensured"]
                  ELSE Returns("notVectorized"))

\* client.upsert(namespace, {wait: true, batch: submission}); not ok: it
\* threw or its status is not "completed"
ClientUpsert(ok) ==
    /\ adding # <<>>
    /\ adding.pc = "ensured"
    /\ store' = (IF ok
                 THEN [store EXCEPT !.points[adding.docId] = @ + adding.vectors]
                 ELSE store)
    /\ adding' = (IF ok
                  THEN [adding EXCEPT !.pc = "upserted",
                                      !.upserts = Append(@, adding.vectors)]
                  ELSE [Returns("notVectorized") EXCEPT !.upsertFailed = TRUE])

\* storeVectorResult(chunks, fullFilePath)
StoreVectorResult(ok) ==
    /\ adding # <<>>
    /\ adding.pc = "upserted"
    /\ store' = (IF ok
                 THEN [store EXCEPT !.cache = ToChunks(adding.vectors, CacheChunk)]
                 ELSE store)
    /\ adding' = (IF ok THEN [adding EXCEPT !.pc = "stored"]
                  ELSE Returns("notVectorized"))

\* what DocumentVectors.bulkInsert(documentVectors) leaves of the rows
Linked ==
    [store EXCEPT !.links[adding.docId] = @ + adding.documentVectors]

\* DocumentVectors.bulkInsert(documentVectors)
BulkInsertVectors(ok) ==
    /\ adding # <<>>
    /\ adding.pc = "stored"
    /\ store' = (IF ok THEN Linked ELSE store)
    /\ adding' = (IF ok THEN Returns("vectorized")
                  ELSE Returns("notVectorized"))

\* processCachedVectors: connect() and getOrCreateCollection; of a cached
\* chunk, the entries whose payload has an id are submitted
CachedGetOrCreateCollection(ok) ==
    /\ adding # <<>>
    /\ adding.pc = "cached"
    /\ store' = (IF ok THEN Ensured(adding.dimension) ELSE store)
    /\ adding' = (IF ok
                  THEN [adding EXCEPT
                            !.pc = "cachedEnsured",
                            !.documentVectors = 0,
                            !.chunks = [i \in DOMAIN store.cache |->
                                           IF adding.payloadId
                                           THEN store.cache[i] ELSE 0]]
                  ELSE Rejects)

\* client.upsert of the next cached chunk
CachedUpsert(ok) ==
    /\ adding # <<>>
    /\ adding.pc = "cachedEnsured"
    /\ adding.chunks # <<>>
    /\ store' = (IF ok
                 THEN [store EXCEPT !.points[adding.docId] = @ + Head(adding.chunks)]
                 ELSE store)
    /\ adding' = (IF ok
                  THEN [adding EXCEPT
                            !.chunks = Tail(@),
                            !.documentVectors = @ + Head(adding.chunks),
                            !.upserts = Append(@, Head(adding.chunks))]
                  ELSE [Rejects EXCEPT !.upsertFailed = TRUE])

\* DocumentVectors.bulkInsert(documentVectors) after the last cached chunk
CachedBulkInsertVectors(ok) ==
    /\ adding # <<>>
    /\ adding.pc = "cachedEnsured"
    /\ adding.chunks = <<>>
    /\ store' = (IF ok THEN Linked ELSE store)
    /\ adding' = (IF ok THEN Returns("vectorized") ELSE Rejects)

\* processSingleDocument returns { success: true, docId, ... }
AttemptSucceeds ==
    /\ adding # <<>>
    /\ adding.pc = "returned"
    /\ adding.outcome = "vectorized"
    /\ adding' = [adding EXCEPT !.pc = "done",
                                !.succeeded = @ \cup {adding.docId}]
    /\ UNCHANGED store

\* !vectorized, or the catch of processSingleDocument: after the sleep,
\* processSingleDocument(workspace, path, VectorDb, attempt + 1)
AttemptRetried ==
    /\ adding # <<>>
    /\ adding.pc = "returned"
    /\ adding.outcome # "vectorized"
    /\ adding.attempt < adding.retryAttempts
    /\ adding' = [NewAdding(adding.attempt + 1, adding.retryAttempts,
                            adding.vectors, adding.dimension, adding.payloadId)
                     EXCEPT !.upserts = adding.upserts]
    /\ UNCHANGED store

\* the last attempt failed: { success: false, ... }
AttemptsExhausted ==
    /\ adding # <<>>
    /\ adding.pc = "returned"
    /\ adding.outcome # "vectorized"
    /\ adding.attempt >= adding.retryAttempts
    /\ adding' = [adding EXCEPT !.pc = "failed"]
    /\ UNCHANGED store

storeOthers == <<limiterVars, rotatorVars, embedVars, docVars, searchVars, tiers, upload>>

StoreNext ==
    \/ CacheChecked /\ UNCHANGED storeOthers
    \/ EmbedChunksSettles(TRUE) /\ UNCHANGED storeOthers
    \/ EmbedChunksSettles(FALSE) /\ UNCHANGED storeOthers
    \/ GetOrCreateCollection(TRUE) /\ UNCHANGED storeOthers
    \/ GetOrCreateCollection(FALSE) /\ UNCHANGED storeOthers
    \/ ClientUpsert(TRUE) /\ UNCHANGED storeOthers
    \/ ClientUpsert(FALSE) /\ UNCHANGED storeOthers
    \/ StoreVectorResult(TRUE) /\ UNCHANGED storeOthers
    \/ StoreVectorResult(FALSE) /\ UNCHANGED storeOthers
    \/ BulkInsertVectors(TRUE) /\ UNCHANGED storeOthers
    \/ BulkInsertVectors(FALSE) /\ UNCHANGED storeOthers
    \/ CachedGetOrCreateCollection(TRUE) /\ UNCHANGED storeOthers
    \/ CachedGetOrCreateCollection(FALSE) /\ UNCHANGED storeOthers
    \/ CachedUpsert(TRUE) /\ UNCHANGED storeOthers
    \/ CachedUpsert(FALSE) /\ UNCHANGED storeOthers
    \/ CachedBulkInsertVectors(TRUE) /\ UNCHANGED storeOthers
    \/ CachedBulkInsertVectors(FALSE) /\ UNCHANGED storeOthers
    \/ AttemptSucceeds /\ UNCHANGED storeOthers
    \/ AttemptRetried /\ UNCHANGED storeOthers
    \/ AttemptsExhausted /\ UNCHANGED storeOthers

StoreSpecInit ==
    /\ StoreInit
    /\ LimiterOff /\ RotatorOff /\ EmbedOff /\ ProcessorOff /\ SearchOff
    /\ TiersOff /\ UploadOff

\* one document through processSingleDocument, the writes of
\* addDocumentToNamespace succeeding or failing one by one
StoreSpec == StoreSpecInit /\ [][StoreNext]_vars

\* C27: no vector is in the collection before the collection is ensured; the
\* document_vectors rows of a docId are written only after its upsert
\* completed, one row per upserted vector; and when an upsert failed no row
\* is written and the call reports vectorized = false.
C27_EnsuredUpsertedLinked ==
    /\ (\E d \in DocIds : store.points[d] > 0) => store.collection # NULL
    /\ \A d \in DocIds : store.links[d] > 0 => store.links[d] = store.points[d]
    /\ adding.upsertFailed =>
           /\ store.links[adding.docId] = 0
           /\ adding.outcome = "notVectorized"

\* C28: no upsert call of addDocumentToNamespace carries more than 2000
\* vectors.
C28_UpsertsWithinLimit ==
    \A i \in DOMAIN adding.upserts : adding.upserts[i] <= UpsertLimit

\* C29: when the ingestion of the document is over, the vectors in the
\* collection were all generated under one docId, they all have their
\* document_vectors row, and that docId is the one recorded as succeeded.
C29_NoOrphanVectors ==
    adding.pc \in {"done", "failed"} =>
        /\ \A d \in DocIds : store.points[d] > 0 =>
               /\ store.links[d] = store.points[d]
               /\ d \in adding.succeeded
        /\ Cardinality({d \in DocIds : store.points[d] > 0}) <= 1

(***************************************************************************)
(* The limiter of ParallelDocumentProcessor around the limiter of the        *)
(* ParallelGeminiEmbedder each addDocumentToNamespace creates               *)
(***************************************************************************)
\* this.concurrency of the processor
TierConcurrency == 1..MaxLimit

\* this.concurrentRequests of an embedder
TierRequests == 1..MaxLimit

\* the documents of the batch
TierDocs == 1..3

\* the number of sub-batches chunkArray makes of a document
TierBatchCounts == {1, 3}

\* a document of the batch before batch.map reaches it
TierDoc == [pc |-> "idle", lim |-> NULL, call |-> <<>>]

\* Mutant: the embedder starts every sub-batch call at once
TierEmbedRunUnlimited(e, b) ==
    [e EXCEPT !.lim = Occupy(@), !.call[b] = "inFlight"]

\* this.limiter.run(() => this.embedBatch(batch, index)) of the embedder e
\* of a document, up to its first await
TierEmbedRun(e, b) ==
    IF MustWait(e.lim)
    THEN [e EXCEPT !.lim = Enqueue(@, b), !.call[b] = "waiting"]
    ELSE [e EXCEPT !.lim = Occupy(@), !.call[b] = "inFlight"]

\* batches.map((batch, index) => this.limiter.run(...)), from sub-batch b on
RECURSIVE TierEmbedRunFrom(_, _)
TierEmbedRunFrom(e, b) ==
    IF b > Len(e.call) THEN e ELSE TierEmbedRunFrom(TierEmbedRun(e, b), b + 1)

\* embedBatch of sub-batch b settled: run() gives the slot back and resolves
\* the first waiter, which tests the loop condition again
TierEmbedSettle(e, b) ==
    LET e1 == [e EXCEPT !.call[b] = "done", !.lim = Vacate(@)]
    IN  IF e.lim.queue = <<>> THEN e1 ELSE TierEmbedRun(e1, Head(e.lim.queue))

\* this.limiter.run(() => this.processSingleDocument(...)) of the processor,
\* up to its first await
TierDocRun(o, d) ==
    IF MustWait(o.lim)
    THEN [o EXCEPT !.lim = Enqueue(@, d), !.doc[d].pc = "waiting"]
    ELSE [o EXCEPT !.lim = Occupy(@), !.doc[d].pc = "loading"]

\* batch.map(path => this.limiter.run(...)), from document d on
RECURSIVE TierRunBatch(_, _)
TierRunBatch(o, d) ==
    IF d \notin TierDocs THEN o ELSE TierRunBatch(TierDocRun(o, d), d + 1)

\* processSingleDocument of document d settled: run() gives the slot back
\* and resolves the first waiter, which tests the loop condition again
TierDocSettle(o, d) ==
    LET o1 == [o EXCEPT !.doc[d].pc = "settled", !.lim = Vacate(@)]
    IN  IF o.lim.queue = <<>> THEN o1 ELSE TierDocRun(o1, Head(o.lim.queue))

\* new ParallelDocumentProcessor({concurrency}); the embedders will have
\* concurrentRequests `requests`
TiersInit ==
    \E concurrency \in TierConcurrency, requests \in TierRequests :
        tiers = [pc       |-> "constructed",
                 lim      |-> NewLimiter(concurrency),
                 requests |-> requests,
                 doc      |-> [d \in TierDocs |-> TierDoc]]

\* processDocuments: Promise.all(batch.map(...)) up to its await
TierProcessBatch ==
    /\ tiers # <<>>
    /\ tiers.pc = "constructed"
    /\ tiers' = TierRunBatch([tiers EXCEPT !.pc = "awaiting"], 1)

\* addDocumentToNamespace of document d: new ParallelGeminiEmbedder() and
\* embedChunks on a text of n sub-batches, up to its await
TierEmbedChunks(d, n) ==
    /\ tiers # <<>>
    /\ tiers.doc[d].pc = "loading"
    /\ tiers' = [tiers EXCEPT !.doc[d] =
                     TierEmbedRunFrom([pc   |-> "embedding",
                                       lim  |-> NewLimiter(tiers.requests),
                                       call |-> [b \in 1..n |-> "idle"]], 1)]

\* the embedBatch call of sub-batch b of document d settles
TierBatchSettles(d, b) ==
    /\ tiers # <<>>
    /\ tiers.doc[d].pc = "embedding"
    /\ b \in DOMAIN tiers.doc[d].call
    /\ tiers.doc[d].call[b] = "inFlight"
    /\ tiers' = [tiers EXCEPT !.doc[d] = TierEmbedSettle(@, b)]

\* Promise.all of embedChunks resolves: the vectors are stored
TierEmbedChunksReturns(d) ==
    /\ tiers # <<>>
    /\ tiers.doc[d].pc = "embedding"
    /\ \A b \in DOMAIN tiers.doc[d].call : tiers.doc[d].call[b] = "done"
    /\ tiers' = [tiers EXCEPT !.doc[d].pc = "storing"]

\* addDocumentToNamespace returned vectorized: false and the document is
\* tried again, in the slot it holds
TierDocumentRetried(d) ==
    /\ tiers # <<>>
    /\ tiers.doc[d].pc = "storing"
    /\ tiers' = [tiers EXCEPT !.doc[d].pc = "loading",
                              !.doc[d].lim = NULL]

\* processSingleDocument of document d returns
TierDocumentSettles(d) ==
    /\ tiers # <<>>
    /\ tiers.doc[d].pc = "storing"
    /\ tiers' = TierDocSettle(tiers, d)

\* Promise.all of the batch resolves
TierBatchResolves ==
    /\ tiers # <<>>
    /\ tiers.pc = "awaiting"
    /\ \A d \in TierDocs : tiers.doc[d].pc = "settled"
    /\ tiers' = [tiers EXCEPT !.pc = "resolved"]

tiersOthers == <<limiterVars, rotatorVars, embedVars, docVars, searchVars, storeVars, upload>>

TiersNext ==
    \/ TierProcessBatch /\ UNCHANGED tiersOthers
    \/ \E d \in TierDocs : \E n \in TierBatchCounts : TierEmbedChunks(d, n) /\ UNCHANGED tiersOthers
    \/ \E d \in TierDocs : \E b \in DOMAIN tiers.doc[d].call : TierBatchSettles(d, b) /\ UNCHANGED tiersOthers
    \/ \E d \in TierDocs : TierEmbedChunksReturns(d) /\ UNCHANGED tiersOthers
    \/ \E d \in TierDocs : TierDocumentRetried(d) /\ UNCHANGED tiersOthers
    \/ \E d \in TierDocs : TierDocumentSettles(d) /\ UNCHANGED tiersOthers
    \/ TierBatchResolves /\ UNCHANGED tiersOthers

TiersSpecInit ==
    /\ TiersInit
    /\ LimiterOff /\ RotatorOff /\ EmbedOff /\ ProcessorOff /\ SearchOff
    /\ StoreOff /\ UploadOff

\* a batch of documents through the two limiters
TiersSpec == TiersSpecInit /\ [][TiersNext]_vars

\* the documents being processed, the sub-batch calls of a document in flight
TierProcessing == {d \in TierDocs : tiers.doc[d].pc \in {"loading", "embedding", "storing"}}

TierInFlight(d) == {b \in DOMAIN tiers.doc[d].call : tiers.doc[d].call[b] = "inFlight"}

TierAllInFlight == UNION {{<<d, b>> : b \in TierInFlight(d)} : d \in TierDocs}

\* C30: at most `concurrency` documents are being processed at once, each
\* has at most concurrentRequests sub-batch calls in flight, so at most
\* concurrency x concurrentRequests calls are in flight overall; and the
\* batch never stops before processDocuments has its results.
C30_TiersNestSafely ==
    /\ Cardinality(TierProcessing) <= tiers.lim.limit
    /\ \A d \in TierDocs : Cardinality(TierInFlight(d)) <= tiers.requests
    /\ Cardinality(TierAllInFlight) <= tiers.lim.limit * tiers.requests
    /\ tiers.pc # "resolved" => ENABLED TiersNext

\* both limiters are full and both have waiters
C30_Witness ==
    /\ tiers.lim.limit = 2
    /\ tiers.requests = 2
    /\ Cardinality(TierAllInFlight) = 4
    /\ tiers.lim.queue # <<>>
    /\ \A d \in TierProcessing : tiers.doc[d].lim.queue # <<>>

(***************************************************************************)
(* HybridSearchManager.search: the filters of the metadata path              *)
(***************************************************************************)
\* A text is a sequence of words separated by one blank; "" is <<>>.  The
\* words of the queries: one the year pattern matches, one the case type
\* pattern /bail/i matches, two that no pattern matches
QueryWords == {"2019", "bail", "hello", "tenancy"}

WordLength(w) == CASE w = "tenancy" -> 7 [] w = "hello" -> 5 [] OTHER -> 4

RECURSIVE TextLength(_)
TextLength(text) ==
    IF text = <<>> THEN 0
    ELSE WordLength(Head(text)) + (IF Len(text) > 1 THEN 1 ELSE 0)
             + TextLength(Tail(text))

QueryTexts == {<<>>} \cup {<<w>> : w \in QueryWords}
                  \cup {<<v, w>> : v, w \in QueryWords}

\* the fields performMetadataSearch copies to searchParams
MetadataFields ==
    {"court", "year", "case_type", "jurisdiction", "judge", "citation",
     "keywords", "bench_type", "fulltext"}

\* the filters a caller passes: a function from field names to texts
ExplicitFilters ==
    {<<>>,
     [k \in {"court"} |-> <<"Supreme Court of India">>],
     [k \in {"court", "year"} |-> IF k = "year" THEN <<"2020">> ELSE <<"High Court of Delhi">>],
     [k \in {"court"} |-> <<>>],
     [k \in {"author"} |-> <<"x">>]}

\* query.match(/\b(19\d{2}|20\d{2})\b/)
YearMatch(text) == {i \in DOMAIN text : text[i] = "2019"}

\* cleanedQuery.replace(String(filters.year), '') and trim(): the length of
\* what is left (the case type "Bail Application" is not in a text of these
\* words, so nothing else is removed)
CleanedLength(text) ==
    IF YearMatch(text) = {} THEN TextLength(text)
    ELSE LET i == CHOOSE j \in YearMatch(text) : \A k \in YearMatch(text) : j <= k
             n == Len(text)
         IN  TextLength(text) - WordLength("2019")
                 - (IF n > 1 /\ (i = 1 \/ i = n) THEN 1 ELSE 0)

\* the text left for the full-text search
Cleaned(text) ==
    IF YearMatch(text) = {} THEN text
    ELSE LET i == CHOOSE j \in YearMatch(text) : \A k \in YearMatch(text) : j <= k
         IN  SubSeq(text, 1, i - 1) \o SubSeq(text, i + 1, Len(text))

ExtractFiltersFromQuery(text) ==
    LET keys == {k \in {"year", "case_type", "fulltext"} :
                    \/ k = "year" /\ YearMatch(text) # {}
                    \/ k = "case_type" /\ \E i \in DOMAIN text : text[i] = "bail"
                    \/ k = "fulltext" /\ CleanedLength(text) > 5}
    IN  [k \in keys |-> CASE k = "year" -> <<"2019">>
                          [] k = "case_type" -> <<"Bail Application">>
                          [] OTHER -> Cleaned(text)]

\* const enhancedFilters = { ...filters }; extraction when filters has no key
EnhancedFilters(filters, text) ==
    IF DOMAIN filters = {} THEN ExtractFiltersFromQuery(text) ELSE filters

\* performMetadataSearch: `if (filters.court) searchParams.court = ...`
SearchParams(filters) ==
    [k \in {f \in DOMAIN filters \cap MetadataFields : filters[f] # <<>>} |-> filters[k]]

FilterInit ==
    /\ \E text \in QueryTexts, filters \in ExplicitFilters :
           query = [pc |-> "called", text |-> text, filters |-> filters,
                    enhancedFilters |-> <<>>, queried |-> FALSE,
                    searchParams |-> <<>>, threw |-> FALSE, out |-> <<>>]
    /\ candidates = <<>>
    /\ deduped = <<>>
    /\ validated = <<>>
    /\ bm25 = [pc |-> "off"]

\* search up to Promise.all: the metadata path is performMetadataSearch up
\* to its await when enhancedFilters has a key, Promise.resolve([]) otherwise
SearchFilters ==
    /\ query.pc = "called"
    /\ LET enhanced == EnhancedFilters(query.filters, query.text)
       IN  query' = IF DOMAIN enhanced # {}
                    THEN [query EXCEPT !.pc = "searching",
                                       !.enhancedFilters = enhanced,
                                       !.queried = TRUE,
                                       !.searchParams = SearchParams(enhanced)]
                    ELSE [query EXCEPT !.pc = "resolved",
                                       !.enhancedFilters = enhanced]
    /\ UNCHANGED <<candidates, deduped, validated, bm25>>

\* LegalJudgmentMetadata.search(searchParams) resolves
MetadataSearchResolves(out) ==
    /\ query.pc = "searching"
    /\ query' = [query EXCEPT !.pc = "resolved", !.out = out]
    /\ UNCHANGED <<candidates, deduped, validated, bm25>>

\* LegalJudgmentMetadata.search throws: the catch returns []
MetadataSearchThrows ==
    /\ query.pc = "searching"
    /\ query' = [query EXCEPT !.pc = "resolved", !.threw = TRUE]
    /\ UNCHANGED <<candidates, deduped, validated, bm25>>

FilterNext ==
    \/ SearchFilters /\ UNCHANGED <<limiterVars, rotatorVars, embedVars, docVars, storeVars, tiers, upload>>
    \/ \E out \in Outs("metadata") : MetadataSearchResolves(out) /\ UNCHANGED <<limiterVars, rotatorVars, embedVars, docVars, storeVars, tiers, upload>>
    \/ MetadataSearchThrows /\ UNCHANGED <<limiterVars, rotatorVars, embedVars, docVars, storeVars, tiers, upload>>

FilterSpecInit ==
    /\ FilterInit
    /\ LimiterOff /\ RotatorOff /\ EmbedOff /\ ProcessorOff /\ StoreOff /\ TiersOff /\ UploadOff

FilterSpec == FilterSpecInit /\ [][FilterNext]_vars

\* the fields of filters that carry a predicate
Predicates(filters) == {k \in DOMAIN filters : filters[k] # <<>>}

\* C31: with explicit filters nothing is extracted from the query text and
\* the metadata search is made with exactly the explicit filters; when there
\* is no predicate, explicit or extracted, the metadata path contributes
\* the empty list without querying the store.
C31_ExplicitFiltersOrNoOp ==
    query.pc # "called" =>
        /\ DOMAIN query.filters # {} =>
              /\ query.enhancedFilters = query.filters
              /\ query.queried
              /\ query.searchParams = query.filters
        /\ Predicates(query.enhancedFilters) = {} =>
              /\ ~query.queried
              /\ query.out = <<>>

(***************************************************************************)
(* BM25.tokenize, on texts as sequences of character codes                   *)
(***************************************************************************)
Digits == 48..57

UpperCase == 65..90

LowerCase == 97..122

\* \w
WordChars == Digits \cup UpperCase \cup LowerCase \cup {95}

\* the index after the run of characters of `class` that starts at i
RECURSIVE RunEnd(_, _, _)
RunEnd(text, i, class) ==
    IF i <= Len(text) /\ text[i] \in class THEN RunEnd(text, i + 1, class) ELSE i

NoMatch == [ok |-> FALSE, end |-> 0, with |-> <<>>]

\* /(\d+)\s+([A-Z][a-z]+\.?)\s+(\d+)/ matched at i, replaced by '$1_$2_$3'
CitationAt(text, i) ==
    LET a == RunEnd(text, i, Digits)
        b == RunEnd(text, a, Whitespace)
        d == RunEnd(text, b + 1, LowerCase)
        e == IF d <= Len(text) /\ text[d] = 46 THEN d + 1 ELSE d
        f == RunEnd(text, e, Whitespace)
        g == RunEnd(text, f, Digits)
    IN  IF /\ a > i
           /\ b > a
           /\ b <= Len(text) /\ text[b] \in UpperCase
           /\ d > b + 1
           /\ f > e
           /\ g > f
        THEN [ok |-> TRUE, end |-> g,
              with |-> SubSeq(text, i, a - 1) \o <<95>> \o SubSeq(text, b, e - 1)
                           \o <<95>> \o SubSeq(text, f, g - 1)]
        ELSE NoMatch

\* "section"
SectionWord == <<115, 101, 99, 116, 105, 111, 110>>

\* /section\s+(\d+[a-z]?)\s*\(([a-z0-9]+)\)/i matched at i, replaced by
\* 'section_$1_$2'
SectionAt(text, i) ==
    LET a == i + Len(SectionWord)
        b == RunEnd(text, a, Whitespace)
        c == RunEnd(text, b, Digits)
        d == IF c <= Len(text) /\ text[c] \in LowerCase \cup UpperCase
             THEN c + 1 ELSE c
        e == RunEnd(text, d, Whitespace)
        f == RunEnd(text, e + 1, Digits \cup LowerCase \cup UpperCase)
    IN  IF /\ a - 1 <= Len(text)
           /\ ToLowerCase(SubSeq(text, i, a - 1)) = SectionWord
           /\ b > a
           /\ c > b
           /\ e <= Len(text) /\ text[e] = 40
           /\ f > e + 1
           /\ f <= Len(text) /\ text[f] = 41
        THEN [ok |-> TRUE, end |-> f + 1,
              with |-> SectionWord \o <<95>> \o SubSeq(text, b, d - 1)
                           \o <<95>> \o SubSeq(text, e + 1, f - 1)]
        ELSE NoMatch

\* .replace(/.../g, ...) with the citation pattern, from index i on
RECURSIVE ReplaceCitations(_, _)
ReplaceCitations(text, i) ==
    IF i > Len(text) THEN <<>>
    ELSE LET m == CitationAt(text, i)
         IN  IF m.ok THEN m.with \o ReplaceCitations(text, m.end)
             ELSE <<text[i]>> \o ReplaceCitations(text, i + 1)

\* .replace(/.../gi, ...) with the section pattern, from index i on
RECURSIVE ReplaceSections(_, _)
ReplaceSections(text, i) ==
    IF i > Len(text) THEN <<>>
    ELSE LET m == SectionAt(text, i)
         IN  IF m.ok THEN m.with \o ReplaceSections(text, m.end)
             ELSE <<text[i]>> \o ReplaceSections(text, i + 1)

\* .replace(/[^\w\s_]/g, ' ')
StripSpecial(text) ==
    [i \in DOMAIN text |-> IF text[i] \in WordChars \cup Whitespace THEN text[i] ELSE 32]

\* .split(/\s+/), from index i on, `term` being the piece read so far
RECURSIVE SplitFrom(_, _, _)
SplitFrom(text, i, term) ==
    IF i > Len(text) THEN <<term>>
    ELSE IF text[i] \in Whitespace
         THEN <<term>> \o SplitFrom(text, RunEnd(text, i, Whitespace), <<>>)
         ELSE SplitFrom(text, i + 1, Append(term, text[i]))

\* v, vs, sc, hc, us, uk, eu, ca, ny, dc, j, cj, jj, llp, llc, inc, ltd,
\* plc
LegalAbbreviations ==
    {<<118>>,
     <<118, 115>>,
     <<115, 99>>,
     <<104, 99>>,
     <<117, 115>>,
     <<117, 107>>,
     <<101, 117>>,
     <<99, 97>>,
     <<110, 121>>,
     <<100, 99>>,
     <<106>>,
     <<99, 106>>,
     <<106, 106>>,
     <<108, 108, 112>>,
     <<108, 108, 99>>,
     <<105, 110, 99>>,
     <<108, 116, 100>>,
     <<112, 108, 99>>}

\* the, a, an, and, or, but, in, on, at, to, for, of, with, by, from, as,
\* is, was, are, were, been, be, have, has, had, do, does, did, will,
\* would, should, could, may, might, must, can, this, that, these, those,
\* i, you, he, she, it, we, they
StopWords ==
    {<<116, 104, 101>>,
     <<97>>,
     <<97, 110>>,
     <<97, 110, 100>>,
     <<111, 114>>,
     <<98, 117, 116>>,
     <<105, 110>>,
     <<111, 110>>,
     <<97, 116>>,
     <<116, 111>>,
     <<102, 111, 114>>,
     <<111, 102>>,
     <<119, 105, 116, 104>>,
     <<98, 121>>,
     <<102, 114, 111, 109>>,
     <<97, 115>>,
     <<105, 115>>,
     <<119, 97, 115>>,
     <<97, 114, 101>>,
     <<119, 101, 114, 101>>,
     <<98, 101, 101, 110>>,
     <<98, 101>>,
     <<104, 97, 118, 101>>,
     <<104, 97, 115>>,
     <<104, 97, 100>>,
     <<100, 111>>,
     <<100, 111, 101, 115>>,
     <<100, 105, 100>>,
     <<119, 105, 108, 108>>,
     <<119, 111, 117, 108, 100>>,
     <<115, 104, 111, 117, 108, 100>>,
     <<99, 111, 117, 108, 100>>,
     <<109, 97, 121>>,
     <<109, 105, 103, 104, 116>>,
     <<109, 117, 115, 116>>,
     <<99, 97, 110>>,
     <<116, 104, 105, 115>>,
     <<116, 104, 97, 116>>,
     <<116, 104, 101, 115, 101>>,
     <<116, 104, 111, 115, 101>>,
     <<105>>,
     <<121, 111, 117>>,
     <<104, 101>>,
     <<115, 104, 101>>,
     <<105, 116>>,
     <<119, 101>>,
     <<116, 104, 101, 121>>}

\* the callback of .filter
KeepsTerm(term) ==
    /\ ~(Len(term) <= 2 /\ term \notin LegalAbbreviations)
    /\ term \notin StopWords

Tokenize(text) ==
    IF text = <<>> THEN <<>>
    ELSE SelectSeq(
             SplitFrom(
                 StripSpecial(
                     ReplaceSections(ReplaceCitations(ToLowerCase(text), 1), 1)),
                 1, <<>>),
             KeepsTerm)

\* the phrases the texts are made of: citation-like references, section
\* references, and others
TokenizePhrases ==
    {[text |-> <<49, 50, 51, 32, 85, 46, 83, 46, 32, 52, 53, 54>>, kind |-> "citation"],
     [text |-> <<49, 50, 32, 67, 97, 108, 46, 32, 51, 52, 53>>, kind |-> "citation"],
     [text |-> <<83, 101, 99, 116, 105, 111, 110, 32, 52, 50, 40, 97, 41>>, kind |-> "section"],
     [text |-> <<115, 101, 99, 116, 105, 111, 110, 32, 52, 97, 32, 40, 98, 41>>, kind |-> "section"],
     [text |-> <<83, 116, 97, 116, 101, 32, 118, 46, 32, 82, 97, 111>>, kind |-> "none"],
     [text |-> <<116, 104, 101, 32, 65, 99, 116>>, kind |-> "none"],
     [text |-> <<65, 73, 82, 32, 49, 57, 55, 51, 32, 83, 67, 32, 49, 52, 54, 49>>, kind |-> "none"]}
\* "123 U.S. 456", "12 Cal. 345", "Section 42(a)", "section 4a (b)",
\* "State v. Rao", "the Act", "AIR 1973 SC 1461"

\* one phrase, or two phrases separated by a blank
TokenizeInputs ==
    {<<p>> : p \in TokenizePhrases} \cup {<<p, q>> : p, q \in TokenizePhrases}

TextOf(phrases) ==
    IF Len(phrases) = 1 THEN phrases[1].text
    ELSE phrases[1].text \o <<32>> \o phrases[2].text

TokenizeInit ==
    /\ \E phrases \in TokenizeInputs :
           bm25 = [pc |-> "text", phrases |-> phrases, text |-> TextOf(phrases),
                   tokens |-> <<>>]
    /\ query = [pc |-> "off"]
    /\ candidates = <<>>
    /\ deduped = <<>>
    /\ validated = <<>>

\* tokenize(text) is called
TokenizeText ==
    /\ bm25.pc = "text"
    /\ bm25' = [bm25 EXCEPT !.pc = "tokenized", !.tokens = Tokenize(bm25.text)]
    /\ UNCHANGED <<query, candidates, deduped, validated>>

TokenizeNext ==
    \/ TokenizeText /\ UNCHANGED <<limiterVars, rotatorVars, embedVars, docVars, storeVars, tiers, upload>>

TokenizeSpecInit ==
    /\ TokenizeInit
    /\ LimiterOff /\ RotatorOff /\ EmbedOff /\ ProcessorOff /\ StoreOff /\ TiersOff /\ UploadOff

TokenizeSpec == TokenizeSpecInit /\ [][TokenizeNext]_vars

\* the maximal runs of letters and digits of a text: the parts of a reference
Parts(text) == SelectSeq(SplitFrom(StripSpecial(ToLowerCase(text)), 1, <<>>),
                         LAMBDA term : term # <<>>)

Contains(term, part) ==
    \E i \in 1..(Len(term) - Len(part) + 1) :
        SubSeq(term, i, i + Len(part) - 1) = part

\* C32: every citation-like reference and every section reference of the
\* text comes out of tokenize as one token that holds all its parts.
C32_ReferencesAtomic ==
    bm25.pc = "tokenized" =>
        \A k \in DOMAIN bm25.phrases :
            bm25.phrases[k].kind # "none" =>
                \E t \in DOMAIN bm25.tokens :
                    \A j \in DOMAIN Parts(bm25.phrases[k].text) :
                        Contains(bm25.tokens[t], Parts(bm25.phrases[k].text)[j])

(***************************************************************************)
(* BM25: buildIndex, scoreDocument and search.  Scores and idf are in        *)
(* thousandths, rounded down.                                               *)
(***************************************************************************)
\* k1: 1.5, in tenths
K1Tenths == 15

\* b: 0.75, in hundredths
BHundredths == 75

\* Math.log(num / den) in thousandths, for the quotients the index meets
LogThousandths ==
    (<<1, 3>> :> -1099) @@
    (<<1, 5>> :> -1610) @@
    (<<1, 7>> :> -1946) @@
    (<<1, 9>> :> -2198) @@
    (<<1, 11>> :> -2398) @@
    (<<3, 3>> :> 0) @@
    (<<3, 5>> :> -511) @@
    (<<3, 7>> :> -848) @@
    (<<3, 9>> :> -1099) @@
    (<<4, 3>> :> 287) @@
    (<<5, 3>> :> 510) @@
    (<<5, 5>> :> 0) @@
    (<<5, 7>> :> -337) @@
    (<<6, 3>> :> 693) @@
    (<<6, 5>> :> 182) @@
    (<<7, 3>> :> 847) @@
    (<<7, 5>> :> 336) @@
    (<<8, 3>> :> 980) @@
    (<<8, 5>> :> 470) @@
    (<<8, 7>> :> 133) @@
    (<<9, 3>> :> 1098) @@
    (<<10, 3>> :> 1203) @@
    (<<10, 5>> :> 693) @@
    (<<10, 7>> :> 356) @@
    (<<10, 9>> :> 105) @@
    (<<12, 3>> :> 1386) @@
    (<<12, 5>> :> 875) @@
    (<<12, 7>> :> 538) @@
    (<<12, 9>> :> 287) @@
    (<<12, 11>> :> 87)

\* Mutant: IDF = log((N - df + 0.5) / (df + 0.5)), without the + 1
IdfPlain(n, docFreq) ==
    LogThousandths[<<2 * (n - docFreq) + 1, 2 * docFreq + 1>>]

\* Math.log((this.documentCount - docFreq + 0.5) / (docFreq + 0.5) + 1)
Idf(n, docFreq) ==
    LogThousandths[<<2 * (n - docFreq) + 1 + (2 * docFreq + 1), 2 * docFreq + 1>>]

\* the texts of the documents: "bail", "bail bail tenancy", "tenancy act", "the"
IndexTexts ==
    {<<98, 97, 105, 108>>,
     <<98, 97, 105, 108, 32, 98, 97, 105, 108, 32, 116, 101, 110, 97, 110, 99, 121>>,
     <<116, 101, 110, 97, 110, 99, 121, 32, 97, 99, 116>>,
     <<116, 104, 101>>}

\* the queries: "bail", "tenancy bail", "act", "the of"
IndexQueries ==
    {<<98, 97, 105, 108>>,
     <<116, 101, 110, 97, 110, 99, 121, 32, 98, 97, 105, 108>>,
     <<97, 99, 116>>,
     <<116, 104, 101, 32, 111, 102>>}

\* termFreq of a list of tokens: a Map from the tokens to their counts
TermFreq(tokens) ==
    [term \in {tokens[i] : i \in DOMAIN tokens} |->
        Cardinality({i \in DOMAIN tokens : tokens[i] = term})]

\* termFreq.get(term) || 0 and this.idf.get(term) || 0
GetOrZero(map, term) == IF term \in DOMAIN map THEN map[term] ELSE 0

RECURSIVE SumOf(_)
SumOf(numbers) == IF numbers = <<>> THEN 0 ELSE Head(numbers) + SumOf(Tail(numbers))

\* buildIndex() on the documents (documents[i] is a text): the lengths, the
\* term frequencies, the total length (avgDocLength is totalLength /
\* documentCount) and the idf of every term
BuildIndex(documents) ==
    LET tokens == [i \in DOMAIN documents |-> Tokenize(documents[i])]
        termFrequencies == [i \in DOMAIN documents |-> TermFreq(tokens[i])]
        terms == UNION {DOMAIN termFrequencies[i] : i \in DOMAIN documents}
        docFreq(term) == Cardinality({i \in DOMAIN documents :
                                         term \in DOMAIN termFrequencies[i]})
    IN  [documents       |-> documents,
         documentCount   |-> Len(documents),
         documentLengths |-> [i \in DOMAIN documents |-> Len(tokens[i])],
         totalLength     |-> SumOf([i \in DOMAIN documents |-> Len(tokens[i])]),
         termFrequencies |-> termFrequencies,
         idf             |-> [term \in terms |-> Idf(Len(documents), docFreq(term))]]

\* idf * (numerator / denominator) for a term that occurs tf times in a
\* document of docLength tokens
TermScore(index, docLength, tf, idf) ==
    (idf * 100 * tf * (K1Tenths + 10) * index.totalLength)
        \div (1000 * tf * index.totalLength
                  + K1Tenths * ((100 - BHundredths) * index.totalLength
                                   + BHundredths * docLength * index.documentCount))

\* scoreDocument(docIndex, queryTokens), docIndex counted from 1, with the
\* term frequencies of the document given apart
RECURSIVE ScoreWith(_, _, _, _)
ScoreWith(index, docIndex, termFreq, queryTokens) ==
    IF queryTokens = <<>> THEN 0
    ELSE LET term == Head(queryTokens)
             tf == GetOrZero(termFreq, term)
         IN  (IF tf = 0 THEN 0
              ELSE TermScore(index, index.documentLengths[docIndex], tf,
                             GetOrZero(index.idf, term)))
                 + ScoreWith(index, docIndex, termFreq, Tail(queryTokens))

ScoreDocument(index, docIndex, queryTokens) ==
    ScoreWith(index, docIndex, index.termFrequencies[docIndex], queryTokens)

\* search(query, topK) of the index
IndexSearch(index, text, topK) ==
    Bm25Search([i \in DOMAIN index.documents |->
                   ScoreDocument(index, i, Tokenize(text))], topK)

\* new BM25(documents) with one document or more
IndexInit ==
    /\ \E n \in 1..(MaxIndexDocs - 1) : \E documents \in [1..n -> IndexTexts] :
           bm25 = [pc |-> "indexed", index |-> BuildIndex(documents),
                   query |-> <<>>, topK |-> 0, out |-> <<>>]
    /\ query = [pc |-> "off"]
    /\ candidates = <<>>
    /\ deduped = <<>>
    /\ validated = <<>>

\* addDocuments([text]): the index is built again
AddDocuments(text) ==
    /\ bm25.pc = "indexed"
    /\ bm25.index.documentCount < MaxIndexDocs
    /\ bm25' = [bm25 EXCEPT !.index = BuildIndex(Append(bm25.index.documents, text))]
    /\ UNCHANGED <<query, candidates, deduped, validated>>

\* search(text, topK)
IndexSearches(text, topK) ==
    /\ bm25.pc = "indexed"
    /\ bm25' = [bm25 EXCEPT !.pc = "searched", !.query = text, !.topK = topK,
                            !.out = IndexSearch(bm25.index, text, topK)]
    /\ UNCHANGED <<query, candidates, deduped, validated>>

IndexNext ==
    \/ \E text \in IndexTexts : AddDocuments(text) /\ UNCHANGED <<limiterVars, rotatorVars, embedVars, docVars, storeVars, tiers, upload>>
    \/ \E text \in IndexQueries : \E topK \in 1..MaxTopN : IndexSearches(text, topK) /\ UNCHANGED <<limiterVars, rotatorVars, embedVars, docVars, storeVars, tiers, upload>>

IndexSpecInit ==
    /\ IndexInit
    /\ LimiterOff /\ RotatorOff /\ EmbedOff /\ ProcessorOff /\ StoreOff /\ TiersOff /\ UploadOff

IndexSpec == IndexSpecInit /\ [][IndexNext]_vars

\* C33: no score is negative, and for every document and every query term
\* that occurs in it, the score of the document is at least the score it has
\* with that term occurring 0 times, the length of the document, its other
\* terms and the statistics of the corpus being the same.
C33_MonotoneInTermPresence ==
    bm25.pc = "searched" =>
        LET index == bm25.index
            tokens == Tokenize(bm25.query)
        IN  \A i \in DOMAIN index.documents :
                /\ ScoreDocument(index, i, tokens) >= 0
                /\ \A k \in DOMAIN tokens :
                       tokens[k] \in DOMAIN index.termFrequencies[i] =>
                           ScoreDocument(index, i, tokens) >=
                               ScoreWith(index, i,
                                         [index.termFrequencies[i] EXCEPT ![tokens[k]] = 0],
                                         tokens)

\* a query term occurs in two of three documents, twice in one of them
C33_Witness ==
    /\ bm25.pc = "searched"
    /\ bm25.index.documentCount = 3
    /\ \E k \in DOMAIN Tokenize(bm25.query) :
           LET term == Tokenize(bm25.query)[k]
           IN  /\ Cardinality({i \in 1..3 : term \in DOMAIN bm25.index.termFrequencies[i]}) = 2
               /\ \E i \in 1..3 : GetOrZero(bm25.index.termFrequencies[i], term) = 2

\* the documents of the index with a term of the query
Matching == {i \in DOMAIN bm25.index.documents :
                \E k \in DOMAIN Tokenize(bm25.query) :
                    Tokenize(bm25.query)[k] \in DOMAIN bm25.index.termFrequencies[i]}

\* C40: search(query, topK) on an index of N documents returns min(topK, N)
\* entries of different documents, each with the score of its document, in
\* non-increasing score order, entries of equal score in index order; so
\* when fewer than topK documents match, documents without a term of the
\* query are returned with score 0.
C40_TopKInOrder ==
    bm25.pc = "searched" =>
        LET out == bm25.out
            n == bm25.index.documentCount
        IN  /\ Len(out) = IF bm25.topK < n THEN bm25.topK ELSE n
            /\ \A i \in DOMAIN out :
                   /\ out[i].index + 1 \in DOMAIN bm25.index.documents
                   /\ out[i].score = ScoreDocument(bm25.index, out[i].index + 1,
                                                   Tokenize(bm25.query))
            /\ \A i, j \in DOMAIN out : i < j =>
                   \/ out[i].score > out[j].score
                   \/ out[i].score = out[j].score /\ out[i].index < out[j].index
            /\ \A i \in DOMAIN bm25.index.documents :
                   (i \notin Matching /\ Cardinality(Matching) < bm25.topK
                        /\ Len(out) = n) =>
                       \E k \in DOMAIN out : out[k].index + 1 = i /\ out[k].score = 0

\* two entries are returned for a query only one of three documents matches
\* ... or for one that two documents of equal score match
C40_Witness ==
    /\ bm25.pc = "searched"
    /\ bm25.topK = 2
    /\ Len(bm25.out) = 2
    /\ \/ Cardinality(Matching) = 1 /\ bm25.out[2].score = 0
       \/ bm25.out[1].score = bm25.out[2].score /\ bm25.out[1].score > 0

(***************************************************************************)
(* batchUpload50k.js: a directory of PDFs uploaded in batches, resumed     *)
(* from the progress file                                                  *)
(***************************************************************************)
\* getAllPdfFiles(CONFIG.pdfDirectory), the same directory in every run
PdfFiles == [f \in 1..MaxPdfs |-> f]

\* the progress file: absent, written by saveProgress, or cut short by a
\* kill inside writeFileSync; progress.failed only feeds the statistics
NoProgressFile == [state |-> "absent", processed |-> {}]

UploadInit ==
    upload = [pc             |-> "idle",
              disk           |-> NoProgressFile,
              runs           |-> 0,
              processedFiles |-> {},
              batches        |-> <<>>,
              i              |-> 0,
              j              |-> 0,
              successful     |-> {},
              recorded       |-> {},
              uploads        |-> [f \in 1..MaxPdfs |-> 0],
              again          |-> {}]

\* loadProgress(): the parsed file, or { processed: [], failed: [] } when
\* the file does not exist or reading or parsing it throws
LoadProgress ==
    IF upload.disk.state = "written" THEN upload.disk.processed ELSE {}

\* the files of the batch in hand
UploadBatchFiles == upload.batches[upload.i]

\* node scripts/batchUpload50k.js: lines 24-76, up to the first batch
BatchUpload ==
    /\ upload # <<>>
    /\ upload.pc \in {"idle", "killed", "complete"}
    /\ upload.runs < MaxRuns
    /\ LET processed == LoadProgress
           remainingFiles == SelectSeq(PdfFiles, LAMBDA f : f \notin processed)
       IN  upload' = [upload EXCEPT
               !.runs = @ + 1,
               !.processedFiles = processed,
               !.batches = ChunkArray(remainingFiles, MaxDocBatch),
               !.i = IF remainingFiles = <<>> THEN 0 ELSE 1,
               !.j = IF remainingFiles = <<>> THEN 0 ELSE 1,
               !.successful = {},
               !.pc = IF remainingFiles = <<>> THEN "complete" ELSE "uploading"]

\* uploadBatch, one file: copied to the hotdir and posted to the collector
\* and to the workspace; a refusal or a throw puts it in results.failed.
\* After the last file of the batch, lines 90-102 add the successful ones
\* to processedFiles
UploadFile(success) ==
    /\ upload # <<>>
    /\ upload.pc = "uploading"
    /\ LET file == UploadBatchFiles[upload.j]
           successful == IF success THEN upload.successful \cup {file}
                         ELSE upload.successful
           last == upload.j = Len(UploadBatchFiles)
       IN  upload' = [upload EXCEPT
               !.uploads[file] = @ + 1,
               !.again = IF file \in upload.recorded THEN @ \cup {file} ELSE @,
               !.successful = successful,
               !.j = IF last THEN @ ELSE @ + 1,
               !.processedFiles = IF last THEN @ \cup successful ELSE @,
               !.pc = IF last THEN "saving" ELSE "uploading"]

\* saveProgress(progress): writeFileSync, an error of which is logged and
\* swallowed; then the statistics and, before a further batch, sleep(5000)
SaveProgress(written) ==
    /\ upload # <<>>
    /\ upload.pc = "saving"
    /\ upload' = [upload EXCEPT
           !.disk = IF written
                    THEN [state |-> "written", processed |-> upload.processedFiles]
                    ELSE @,
           !.recorded = IF written THEN @ \cup upload.processedFiles ELSE @,
           !.pc = IF upload.i < Len(upload.batches) THEN "sleeping" ELSE "complete"]

\* the sleep is over: the next batch
NextUploadBatch ==
    /\ upload # <<>>
    /\ upload.pc = "sleeping"
    /\ upload' = [upload EXCEPT !.i = @ + 1, !.j = 1, !.successful = {},
                                !.pc = "uploading"]

\* the run is interrupted (the process is killed); a kill that lands inside
\* writeFileSync leaves a file that JSON.parse rejects
Interrupted(insideWrite) ==
    /\ upload # <<>>
    /\ upload.pc \in {"uploading", "saving", "sleeping"}
    /\ insideWrite => upload.pc = "saving"
    /\ upload' = [upload EXCEPT
           !.disk = IF insideWrite THEN [state |-> "truncated", processed |-> {}]
                    ELSE @,
           !.pc = "killed"]

uploadOthers == <<limiterVars, rotatorVars, embedVars, docVars, searchVars, storeVars, tiers>>

UploadNext ==
    \/ BatchUpload /\ UNCHANGED uploadOthers
    \/ \E success \in BOOLEAN : UploadFile(success) /\ UNCHANGED uploadOthers
    \/ \E written \in BOOLEAN : SaveProgress(written) /\ UNCHANGED uploadOthers
    \/ NextUploadBatch /\ UNCHANGED uploadOthers
    \/ \E insideWrite \in BOOLEAN : Interrupted(insideWrite) /\ UNCHANGED uploadOthers

UploadSpecInit ==
    /\ UploadInit
    /\ LimiterOff /\ RotatorOff /\ EmbedOff /\ ProcessorOff /\ SearchOff
    /\ StoreOff /\ TiersOff

\* runs of the upload script over one directory, interrupted or not
UploadSpec == UploadSpecInit /\ [][UploadNext]_vars

\* C34: the progress file holds the processed files after every batch (when
\* a batch is over and the next has not begun, the file lists exactly the
\* files processed so far), and a file that the progress file recorded as
\* processed is never uploaded again.
C34_ResumeFromProgress ==
    /\ (upload.pc \in {"sleeping", "complete"} /\ upload.i > 0) =>
           /\ upload.disk.state = "written"
           /\ upload.disk.processed = upload.processedFiles
    /\ upload.again = {}

\* the part of C34 that the code keeps: a run uploads only files that the
\* progress it loaded does not list, and a file uploaded in a batch whose
\* progress never reached the file is uploaded by the next run
C34_LoadedProgressRespected ==
    /\ upload.pc = "uploading" =>
           \A b \in upload.i..Len(upload.batches) :
               \A k \in DOMAIN upload.batches[b] :
                   (b > upload.i \/ k >= upload.j) =>
                       upload.batches[b][k] \notin upload.processedFiles
    /\ (upload.pc = "uploading" /\ upload.i = 1 /\ upload.j = 1) =>
           \A f \in 1..MaxPdfs :
               f \notin LoadProgress =>
                   \E b \in DOMAIN upload.batches :
                       \E k \in DOMAIN upload.batches[b] : upload.batches[b][k] = f

\* a second run uploads again a successful file of an interrupted batch
C34_InterruptedBatchAgain ==
    /\ upload.runs = 2
    /\ upload.again = {}
    /\ \E f \in 1..MaxPdfs : upload.uploads[f] = 2
====
